---- MODULE Spec2Model ----
(***************************************************************************)
(* A model of the matching and ranking engine of Remote Impact             *)
(* (jobs/services/unified_matching_service.py and its collaborators):      *)
(* the scorers as operators, the job store, retrieval and the onboarding   *)
(* wizard as actions.                                                      *)
(*                                                                         *)
(* Scores are Python floats in the code.  Here they are exact rationals    *)
(* <<numerator, denominator>> in lowest terms with a positive denominator, *)
(* so that a comparison of two scores is a comparison of the values the    *)
(* code computes, up to the float's last bit.                              *)
(***************************************************************************)
EXTENDS Integers, Sequences, FiniteSets, TLC

VARIABLES
    seeker,         \* the SeekerProfile being matched (scoring inputs)
    job,            \* the Job scored by a direct scorer call
    semantic,       \* the semantic score handed to _score_candidate
    hashSeed,       \* per worker process: the str hash seed of the interpreter
    results,        \* per worker process: the MatchResult of its last _score_candidate
    skillsOut,      \* the return value of the last direct _score_skills call
    structuredOut,  \* the outcome of the last compute_structured_score call
    jobsDb,         \* the Job table: id -> row
    now,            \* the clock that stamps posted_at
    lastCall,       \* the retrieval call that has just returned, and what it returned
    profile,        \* the SeekerProfile row edited by the onboarding wizard
    seekersDb,      \* the SeekerProfile table searched for a job: id -> row
    poolCall,       \* the candidate search that has just returned, and what it returned
    applications,   \* per seeker: the GigApplication for the gig, its Trial and Submissions
    gigCall,        \* the last request to the gig views and its response
    accounts,       \* per user: the UserProfile's account type and the organizations joined
    onboardOut,     \* the user and the result of the last get_redirect_for_state
    legacyOut,      \* the return value of the last MatchingService.calculate_match
    matching,       \* per worker process: where its get_matches is, and what it holds
    modelLoaded,    \* per worker process: whether embedding_service._model is set
    jobMatches,     \* the JobMatch table
    subScoreOut,    \* the return value of the last direct call of a profile sub-scorer
    assistant       \* the AssistantSubscription row, the generations, and each worker's request

vars == <<seeker, job, semantic, hashSeed, results, skillsOut, structuredOut,
          jobsDb, now, lastCall, profile, seekersDb, poolCall,
          applications, gigCall, accounts, onboardOut, legacyOut,
          matching, modelLoaded, jobMatches, subScoreOut, assistant>>

scoreVars == <<seeker, job, semantic, hashSeed, results, skillsOut, structuredOut>>
storeVars == <<jobsDb, now, lastCall>>
wizardVars == <<profile>>
poolVars == <<seekersDb, poolCall>>

(* What the scorers, the job store and the wizard leave alone. *)
gigVars == <<applications, gigCall>>
onboardVars == <<accounts, onboardOut>>
legacyVars == <<legacyOut>>
matchVars == <<matching, modelLoaded, jobMatches>>
subScoreVars == <<subScoreOut>>
assistantVars == <<assistant>>
restVars == <<poolVars, gigVars, onboardVars, legacyVars, matchVars, subScoreVars, assistantVars>>

(* What the seeker pool, and what the gig views, leave alone. *)
notPool == <<scoreVars, storeVars, wizardVars, gigVars, onboardVars, legacyVars, matchVars, subScoreVars, assistantVars>>
notGigs == <<scoreVars, storeVars, wizardVars, poolVars, onboardVars, legacyVars, matchVars, subScoreVars, assistantVars>>
notOnboard == <<scoreVars, storeVars, wizardVars, poolVars, gigVars, legacyVars, matchVars, subScoreVars, assistantVars>>

-----------------------------------------------------------------------------
(* Python's None, for the nullable integer and foreign-key columns. *)
None == -1

(* The truth value Python gives a nullable number: None and 0 are false. *)
Truthy(x) == x # None /\ x # 0

-----------------------------------------------------------------------------
(* Exact rational arithmetic for the float scores. *)

RECURSIVE Gcd(_, _)
Gcd(a, b) == IF b = 0 THEN a ELSE Gcd(b, a % b)

Abs(x) == IF x < 0 THEN 0 - x ELSE x

Rat(n, d) ==
    LET g == Gcd(Abs(n), d)
    IN  IF n = 0 THEN <<0, 1>> ELSE <<n \div g, d \div g>>

R(n) == <<n, 1>>

RAdd(a, b) == Rat(a[1] * b[2] + b[1] * a[2], a[2] * b[2])
RSub(a, b) == Rat(a[1] * b[2] - b[1] * a[2], a[2] * b[2])
RMul(a, b) == Rat(a[1] * b[1], a[2] * b[2])
RLeq(a, b) == a[1] * b[2] <= b[1] * a[2]
RLt(a, b) == a[1] * b[2] < b[1] * a[2]
RMin(a, b) == IF RLeq(a, b) THEN a ELSE b
RMax(a, b) == IF RLeq(a, b) THEN b ELSE a

(* round(x, 1): the nearest tenth, a tie going to the even tenth. *)
RoundTenth(x) ==
    LET n10  == 10 * x[1]
        q    == n10 \div x[2]
        rem2 == 2 * (n10 - q * x[2])
        up   == rem2 > x[2] \/ (rem2 = x[2] /\ q % 2 = 1)
    IN  Rat(IF up THEN q + 1 ELSE q, 10)

RECURSIVE SumSeq(_)
SumSeq(s) == IF s = <<>> THEN 0 ELSE Head(s) + SumSeq(Tail(s))

(* s[:n] *)
Take(s, n) == IF Len(s) <= n THEN s ELSE SubSeq(s, 1, n)

-----------------------------------------------------------------------------
(* The skill taxonomy and the keyword tables, as the source states them,   *)
(* restricted to the slugs and the sample texts of the model.  A table     *)
(* named ...In holds, for a sample text, the table entries the code's      *)
(* substring test (`keyword in text`) or word test finds in it.  No entry  *)
(* spans the junction of two sample texts, so the entries of a             *)
(* concatenation are the union of the entries of its parts.                *)

SkillOrder ==
    <<"python", "aws", "sql", "fundraising", "data-analysis", "grant-writing",
      "community-health">>

SkillUniverse == {SkillOrder[i] : i \in 1..Len(SkillOrder)}

SlugIndex(slug) == CHOOSE i \in 1..Len(SkillOrder) : SkillOrder[i] = slug

SKILLS_BY_SLUG ==
       "python" :> "Python"
    @@ "aws" :> "AWS"
    @@ "sql" :> "SQL"
    @@ "fundraising" :> "Fundraising"
    @@ "data-analysis" :> "Data Analysis"
    @@ "grant-writing" :> "Grant Writing"

TitleCased ==
       "python" :> "Python"
    @@ "aws" :> "Aws"
    @@ "sql" :> "Sql"
    @@ "fundraising" :> "Fundraising"
    @@ "data-analysis" :> "Data Analysis"
    @@ "grant-writing" :> "Grant Writing"
    @@ "community-health" :> "Community Health"

LabelLower ==
       "python" :> "python"
    @@ "aws" :> "aws"
    @@ "sql" :> "sql"
    @@ "fundraising" :> "fundraising"
    @@ "data-analysis" :> "data analysis"
    @@ "grant-writing" :> "grant writing"

SlugSpaced ==
       "python" :> "python"
    @@ "aws" :> "aws"
    @@ "sql" :> "sql"
    @@ "fundraising" :> "fundraising"
    @@ "data-analysis" :> "data analysis"
    @@ "grant-writing" :> "grant writing"
    @@ "community-health" :> "community health"

LEVEL_KEYWORDS ==
       "entry" :> {"entry", "junior", "graduate", "intern", "trainee", "early career"}
    @@ "mid" :> {"mid-level", "mid level", "intermediate", "associate", "2-5 years", "3-5 years"}
    @@ "senior" :> {"senior", "lead", "staff", "principal", "sr.", "sr ", "5+ years", "7+ years"}
    @@ "leadership" :> {"director", "head of", "vp", "chief", "manager", "cto", "ceo", "coo", "executive"}

LEVEL_ORDER == <<"entry", "mid", "senior", "leadership">>

EXPERIENCE_COMPATIBILITY ==
       "early" :> {"entry", "junior", "associate", "early", "graduate", "intern"}
    @@ "mid" :> {"mid", "intermediate", "associate", "senior"}
    @@ "senior" :> {"senior", "lead", "staff", "principal", "mid"}
    @@ "leadership" :> {"director", "head", "vp", "chief", "manager", "lead", "senior", "executive"}
    @@ "career_changer" :> {"entry", "junior", "associate", "mid", "early"}

WORK_STYLE_KEYWORDS ==
       "builder" :> <<"engineer", "developer", "software", "product", "design", "build", "create", "architect", "technical", "code", "programming", "frontend", "backend", "fullstack", "devops", "infrastructure", "platform", "ux", "ui">>
    @@ "strategist" :> <<"strategy", "communications", "marketing", "policy", "advocacy", "campaigns", "partnerships", "business", "development", "growth", "brand", "content", "storytelling", "media", "pr", "public", "relations", "outreach">>
    @@ "operator" :> <<"operations", "ops", "finance", "hr", "human", "resources", "admin", "administrative", "logistics", "procurement", "legal", "compliance", "accounting", "payroll", "office", "facilities", "coordinator">>
    @@ "direct" :> <<"program", "project", "field", "service", "delivery", "implementation", "community", "outreach", "engagement", "training", "facilitation", "volunteer", "case", "management", "social", "worker">>
    @@ "researcher" :> <<"research", "analyst", "analysis", "data", "scientist", "quantitative", "qualitative", "evaluation", "assessment", "study", "survey", "statistics", "modeling", "insights", "intelligence", "academic">>

ROLE_LEVERAGE_KEYWORDS ==
       "ceo" :> 30
    @@ "chief" :> 28
    @@ "founder" :> 28
    @@ "president" :> 27
    @@ "executive director" :> 30
    @@ "managing director" :> 28
    @@ "vp" :> 25
    @@ "vice president" :> 25
    @@ "director" :> 22
    @@ "head of" :> 22
    @@ "head," :> 20
    @@ "principal" :> 20
    @@ "partner" :> 20
    @@ "senior" :> 15
    @@ "lead" :> 16
    @@ "staff" :> 14
    @@ "manager" :> 14
    @@ "team lead" :> 16
    @@ "specialist" :> 10
    @@ "analyst" :> 10
    @@ "engineer" :> 10
    @@ "coordinator" :> 8
    @@ "associate" :> 8
    @@ "junior" :> 6
    @@ "assistant" :> 5
    @@ "intern" :> 4
    @@ "fellow" :> 6

SCARCE_SKILLS ==
    <<<<"machine learning", 15>>,
      <<"ml", 15>>,
      <<"ai", 15>>,
      <<"artificial intelligence", 15>>,
      <<"data science", 14>>,
      <<"data engineering", 14>>,
      <<"devops", 14>>,
      <<"cybersecurity", 15>>,
      <<"security", 13>>,
      <<"blockchain", 14>>,
      <<"web3", 13>>,
      <<"product management", 13>>,
      <<"product", 12>>,
      <<"python", 12>>,
      <<"javascript", 12>>,
      <<"typescript", 12>>,
      <<"react", 12>>,
      <<"node", 12>>,
      <<"aws", 13>>,
      <<"gcp", 13>>,
      <<"azure", 13>>,
      <<"sql", 11>>,
      <<"postgresql", 12>>,
      <<"data analysis", 12>>,
      <<"ux", 13>>,
      <<"ui", 12>>,
      <<"design", 12>>,
      <<"fundraising", 10>>,
      <<"grant writing", 10>>,
      <<"communications", 10>>,
      <<"advocacy", 10>>,
      <<"policy", 10>>,
      <<"research", 10>>,
      <<"project management", 10>>,
      <<"operations", 10>>>>

LevelKeywordsIn ==
       "Senior Software Engineer" :> {"senior"}
    @@ "Program Intern" :> {"intern"}
    @@ "Executive Director" :> {"director", "cto", "executive"}
    @@ "Fundraising Officer" :> {}
    @@ "" :> {}
    @@ "Build and design backend software for our platform using Python and SQL." :> {}
    @@ "Lead our research team and manage fundraising strategy. 5+ years of experience required." :> {"lead", "5+ years"}
    @@ "Grant writing and data analysis experience." :> {}
    @@ "Data Analyst" :> {}
    @@ "We are a small nonprofit working to expand access to clean water in rural areas. You will join a distributed group of colleagues and help us plan, build and run our field programmes. Day to day you will talk to partner organisations, keep our records up to date, write short reports on what we learn, and help us decide where to work next. We care about clear writing, kindness and good judgement. We offer flexible hours, a budget for learning, and generous leave. Everyone on our payroll can work from wherever they like, and we meet in person twice a year. This is a senior role with 7+ years of experience." :> {"senior", "7+ years"}
    @@ "We are a small nonprofit working to expand access to clean water in rural areas. You will join a distributed group of colleagues and help us plan, build and run our field programmes. Day to day you will talk to partner organisations, keep our records up to date, write short reports on what we learn, and help us decide where to work next. We care about clear writing, kindness and good judgement. We offer flexible hours, a budget for learning, and generous leave. Everyone on our payroll can work f" :> {}
    @@ "You will shape product and content operations, run qualitative and financial reviews, advise on policy engineering, and own management of research writing, strategy and analysis of data." :> {}

StyleWordsIn ==
       "Senior Software Engineer" :> {"engineer", "software"}
    @@ "Program Intern" :> {"program"}
    @@ "Executive Director" :> {}
    @@ "Fundraising Officer" :> {}
    @@ "" :> {}
    @@ "Build and design backend software for our platform using Python and SQL." :> {"backend", "build", "design", "platform", "software"}
    @@ "Lead our research team and manage fundraising strategy. 5+ years of experience required." :> {"research", "strategy"}
    @@ "Grant writing and data analysis experience." :> {"analysis", "data"}

RoleKeywordsIn ==
       "Senior Software Engineer" :> {"senior", "engineer"}
    @@ "Program Intern" :> {"intern"}
    @@ "Executive Director" :> {"executive director", "director"}
    @@ "Fundraising Officer" :> {}
    @@ "" :> {}

SkillTermsIn ==
       "Senior Software Engineer" :> {}
    @@ "Program Intern" :> {}
    @@ "Executive Director" :> {}
    @@ "Fundraising Officer" :> {"fundraising"}
    @@ "" :> {}
    @@ "Build and design backend software for our platform using Python and SQL." :> {"python", "sql"}
    @@ "Lead our research team and manage fundraising strategy. 5+ years of experience required." :> {"fundraising"}
    @@ "Grant writing and data analysis experience." :> {"data analysis", "grant writing"}

ScarceNamesMatching ==
       "python" :> {"python"}
    @@ "aws" :> {"aws"}
    @@ "sql" :> {"sql", "postgresql"}
    @@ "fundraising" :> {"ai", "fundraising"}
    @@ "data-analysis" :> {}
    @@ "grant-writing" :> {}
    @@ "community-health" :> {}

-----------------------------------------------------------------------------
(* Python iterates a set of str in the order of the hash slots, which the  *)
(* interpreter's hash seed (PYTHONHASHSEED, random per process) decides.   *)
(* HashSlot is the slot of a slug under a seed; list(set) is the set in    *)
(* slot order.                                                             *)

HashSlot(slug, seed) == (SlugIndex(slug) + seed) % Len(SkillOrder)

RECURSIVE ListOfSet(_, _)
ListOfSet(set, seed) ==
    IF set = {} THEN <<>>
    ELSE LET first == CHOOSE x \in set :
                        \A y \in set : HashSlot(x, seed) <= HashSlot(y, seed)
         IN  <<first>> \o ListOfSet(set \ {first}, seed)

(* A reason string: its text and the values formatted into it. *)
Reason(text, args) == [text |-> text, args |-> args, names |-> <<>>]
ReasonNaming(text, names) == [text |-> text, args |-> <<>>, names |-> names]

(* SKILLS_BY_SLUG.get(slug).label, else slug.replace("-", " ").title() *)
SkillLabel(slug) ==
    IF slug \in DOMAIN SKILLS_BY_SLUG THEN SKILLS_BY_SLUG[slug] ELSE TitleCased[slug]

(* A description of 610 characters that names a level after the 500th,     *)
(* and description[:500]: the sample descriptions but this one are shorter *)
(* than 500 characters.                                                    *)
LongDescription ==
    "We are a small nonprofit working to expand access to clean water in rural areas. You will join a distributed group of colleagues and help us plan, build and run our field programmes. Day to day you will talk to partner organisations, keep our records up to date, write short reports on what we learn, and help us decide where to work next. We care about clear writing, kindness and good judgement. We offer flexible hours, a budget for learning, and generous leave. Everyone on our payroll can work from wherever they like, and we meet in person twice a year. This is a senior role with 7+ years of experience."

LongDescriptionHead ==
    "We are a small nonprofit working to expand access to clean water in rural areas. You will join a distributed group of colleagues and help us plan, build and run our field programmes. Day to day you will talk to partner organisations, keep our records up to date, write short reports on what we learn, and help us decide where to work next. We care about clear writing, kindness and good judgement. We offer flexible hours, a budget for learning, and generous leave. Everyone on our payroll can work f"

First500(description) ==
    IF description = LongDescription THEN LongDescriptionHead ELSE description

(* The entries found in f"{job.title} {job.description[:500]}" and in       *)
(* f"{job.title} {job.description or ''} {job.requirements or ''}".        *)
LevelKeywordsOfJob(j) ==
    LevelKeywordsIn[j.title] \cup LevelKeywordsIn[First500(j.description)]
StyleWordsOfJob(j) == StyleWordsIn[j.title] \cup StyleWordsIn[j.description]
SkillTermsOfJob(j) ==
    SkillTermsIn[j.title] \cup SkillTermsIn[j.description] \cup SkillTermsIn[j.requirements]

-----------------------------------------------------------------------------
(* UnifiedMatchingService: the profile sub-scorers.  Each returns its score *)
(* and the reasons it appends to the caller's list.                        *)

ScoreImpactArea(s, j) ==
    IF ~Truthy(j.category) THEN [score |-> R(50), reasons |-> <<>>]
    ELSE IF s.impact_areas = {} THEN [score |-> R(50), reasons |-> <<>>]
    ELSE IF j.category \in s.impact_areas
         THEN [score |-> R(100),
               reasons |-> <<Reason("Matches your {category} focus", <<j.category>>)>>]
    ELSE [score |-> R(35), reasons |-> <<>>]

ScoreSkillsViaKeywords(seeker_skills, j) ==
    LET text == SkillTermsOfJob(j)
        hit(slug) == \/ slug \in DOMAIN SKILLS_BY_SLUG /\ LabelLower[slug] \in text
                     \/ SlugSpaced[slug] \in text
        n == Cardinality({slug \in seeker_skills : hit(slug)})
    IN  IF n >= 5 THEN [score |-> R(85), gaps |-> <<>>,
                        reasons |-> <<Reason("Multiple skills mentioned in job", <<>>)>>]
        ELSE IF n >= 3 THEN [score |-> R(70), gaps |-> <<>>,
                        reasons |-> <<Reason("Some skills found in job description", <<>>)>>]
        ELSE IF n >= 1 THEN [score |-> R(55), gaps |-> <<>>, reasons |-> <<>>]
        ELSE [score |-> R(40), gaps |-> <<>>, reasons |-> <<>>]

(* _score_skills with the gaps taken from the job's skills instead of the *)
(* missing ones.                                                           *)
ScoreSkillsGapsFromJob(s, j, seed) ==
    LET overlap == s.skills \cap j.skills
        ratio == Rat(100 * Cardinality(overlap), Cardinality(j.skills))
        floored == RMax(R(35), ratio)
        slugs == Take(ListOfSet(j.skills, seed), 5)
    IN  IF s.skills = {} THEN [score |-> R(50), gaps |-> <<>>, reasons |-> <<>>]
        ELSE IF j.skills = {} THEN ScoreSkillsViaKeywords(s.skills, j)
        ELSE [score |-> IF Cardinality(overlap) >= 3
                        THEN RMin(R(100), RAdd(floored, R(10))) ELSE floored,
              gaps |-> [i \in 1..Len(slugs) |-> SkillLabel(slugs[i])],
              reasons |-> <<>>]

(* _score_skills with the floor of 35 given only to a seeker none of whose *)
(* skills the job lists.                                                   *)
ScoreSkillsFloorWithoutOverlap(s, j, seed) ==
    LET overlap == s.skills \cap j.skills
        ratio == Rat(100 * Cardinality(overlap), Cardinality(j.skills))
        floored == IF overlap = {} THEN R(35) ELSE ratio
    IN  IF s.skills = {} THEN [score |-> R(50), gaps |-> <<>>, reasons |-> <<>>]
        ELSE IF j.skills = {} THEN ScoreSkillsViaKeywords(s.skills, j)
        ELSE [score |-> IF Cardinality(overlap) >= 3
                        THEN RMin(R(100), RAdd(floored, R(10))) ELSE floored,
              gaps |-> <<>>,
              reasons |-> <<>>]

(* _score_skills with the bonus given from two matching skills on: not    *)
(* what the code does.                                                     *)
ScoreSkillsBonusFromTwo(s, j, seed) ==
    LET overlap == s.skills \cap j.skills
        floored == RMax(R(35), Rat(100 * Cardinality(overlap), Cardinality(j.skills)))
    IN  IF s.skills = {} THEN [score |-> R(50), gaps |-> <<>>, reasons |-> <<>>]
        ELSE IF j.skills = {} THEN ScoreSkillsViaKeywords(s.skills, j)
        ELSE [score |-> IF Cardinality(overlap) >= 2
                        THEN RMin(R(100), RAdd(floored, R(10))) ELSE floored,
              gaps |-> <<>>,
              reasons |-> <<>>]

ScoreSkills(s, j, seed) ==
    LET seeker_skills == s.skills
        job_skills == j.skills
        overlap == seeker_skills \cap job_skills
        missing == job_skills \ seeker_skills
        ratio == Rat(100 * Cardinality(overlap), Cardinality(job_skills))
        floored == RMax(R(35), ratio)
        score == IF Cardinality(overlap) >= 3 THEN RMin(R(100), RAdd(floored, R(10)))
                 ELSE floored
        slugs == Take(ListOfSet(missing, seed), 5)
    IN  IF seeker_skills = {} THEN [score |-> R(50), gaps |-> <<>>, reasons |-> <<>>]
        ELSE IF job_skills = {} THEN ScoreSkillsViaKeywords(seeker_skills, j)
        ELSE [score |-> score,
              gaps |-> [i \in 1..Len(slugs) |-> SkillLabel(slugs[i])],
              reasons |-> IF Cardinality(overlap) > 0
                          THEN <<Reason("{n} of {m} required skills match",
                                        <<Cardinality(overlap), Cardinality(job_skills)>>)>>
                          ELSE <<>>]

(* _infer_job_level: the first level, in the order of LEVEL_KEYWORDS, one   *)
(* of whose keywords occurs in the text; "" stands for None.               *)
RECURSIVE FirstLevel(_, _)
FirstLevel(found, k) ==
    IF k > Len(LEVEL_ORDER) THEN ""
    ELSE IF LEVEL_KEYWORDS[LEVEL_ORDER[k]] \cap found # {} THEN LEVEL_ORDER[k]
    ELSE FirstLevel(found, k + 1)

(* _infer_job_level reading the whole description: not what the code does. *)
InferJobLevelWholeDescription(j) ==
    FirstLevel(LevelKeywordsIn[j.title] \cup LevelKeywordsIn[j.description], 1)

InferJobLevel(j) == FirstLevel(LevelKeywordsOfJob(j), 1)

ScoreExperience(s, j) ==
    LET job_level == InferJobLevel(j)
        compatible_levels ==
            IF s.experience_level \in DOMAIN EXPERIENCE_COMPATIBILITY
            THEN EXPERIENCE_COMPATIBILITY[s.experience_level] ELSE {}
    IN  IF s.experience_level = "" THEN [score |-> R(50), reasons |-> <<>>]
        ELSE IF job_level # "" /\ job_level \in compatible_levels
             THEN [score |-> R(100), reasons |-> <<Reason("Experience level matches", <<>>)>>]
        ELSE IF job_level # "" THEN [score |-> R(30), reasons |-> <<>>]
        ELSE [score |-> R(60), reasons |-> <<>>]

ScoreWorkStyle(s, j) ==
    LET style_keywords ==
            IF s.work_style \in DOMAIN WORK_STYLE_KEYWORDS
            THEN WORK_STYLE_KEYWORDS[s.work_style] ELSE <<>>
        job_words == StyleWordsOfJob(j)
        n == Cardinality({i \in 1..Len(style_keywords) : style_keywords[i] \in job_words})
    IN  IF s.work_style = "" THEN [score |-> R(50), reasons |-> <<>>]
        ELSE IF style_keywords = <<>> THEN [score |-> R(50), reasons |-> <<>>]
        ELSE IF n >= 5 THEN [score |-> R(100),
                             reasons |-> <<Reason("Great fit for your work style", <<>>)>>]
        ELSE IF n >= 3 THEN [score |-> R(80),
                             reasons |-> <<Reason("Aligns with your work style", <<>>)>>]
        ELSE IF n >= 1 THEN [score |-> R(60), reasons |-> <<>>]
        ELSE [score |-> R(30), reasons |-> <<>>]

(* _score_preferences without the test job.salary_min <= seeker_max: not  *)
(* what the code does.                                                     *)
ScorePreferencesAboveMinimum(s, j) ==
    LET typeHit == s.job_types # {} /\ j.job_type # "" /\ j.job_type \in s.job_types
        salaryHit ==
            /\ Truthy(s.salary_min) /\ Truthy(j.salary_max) /\ Truthy(j.salary_min)
            /\ j.salary_max >= s.salary_min
        score == 50 + (IF typeHit THEN 25 ELSE 0) + (IF salaryHit THEN 25 ELSE 0)
    IN  [score |-> RMin(R(100), R(score)),
         reasons |-> IF salaryHit THEN <<Reason("Salary in your range", <<>>)>> ELSE <<>>]

ScorePreferences(s, j) ==
    LET typeHit == s.job_types # {} /\ j.job_type # "" /\ j.job_type \in s.job_types
        salaryHit ==
            /\ Truthy(s.salary_min) /\ Truthy(j.salary_max) /\ Truthy(j.salary_min)
            /\ (Truthy(s.salary_max) => j.salary_min <= s.salary_max)
            /\ j.salary_max >= s.salary_min
        score == 50 + (IF typeHit THEN 25 ELSE 0) + (IF salaryHit THEN 25 ELSE 0)
    IN  [score |-> RMin(R(100), R(score)),
         reasons |-> IF salaryHit THEN <<Reason("Salary in your range", <<>>)>> ELSE <<>>]

(* _calculate_profile_score: the five sub-scores, their weighted sum, the   *)
(* reasons in the order the sub-scorers append them, and the skill gaps.   *)
ProfileParts(s, j, seed) ==
    [impact_area |-> ScoreImpactArea(s, j),
     skills      |-> ScoreSkills(s, j, seed),
     experience  |-> ScoreExperience(s, j),
     work_style  |-> ScoreWorkStyle(s, j),
     preferences |-> ScorePreferences(s, j)]

CalculateProfileScore(s, j, seed) ==
    LET p == ProfileParts(s, j, seed)
        sum == RAdd(RMul(p.impact_area.score, Rat(27, 100)),
               RAdd(RMul(p.skills.score, Rat(33, 100)),
               RAdd(RMul(p.experience.score, Rat(17, 100)),
               RAdd(RMul(p.work_style.score, Rat(13, 100)),
                    RMul(p.preferences.score, Rat(10, 100))))))
    IN  [score |-> sum,
         reasons |-> p.impact_area.reasons \o p.skills.reasons \o p.experience.reasons
                     \o p.work_style.reasons \o p.preferences.reasons,
         gaps |-> p.skills.gaps]

-----------------------------------------------------------------------------
(* ImpactPotentialService *)

OrgPoints(org) ==
      (IF org.is_givewell_top_charity THEN 25 ELSE 0)
    + (IF org.is_80k_recommended THEN 18 ELSE 0)
    + (IF ~org.is_bcorp_certified THEN 0
       ELSE IF Truthy(org.bcorp_score) /\ org.bcorp_score >= 130 THEN 15
       ELSE IF Truthy(org.bcorp_score) /\ org.bcorp_score >= 100 THEN 12
       ELSE 10)
    + (IF org.has_public_impact_report THEN 8 ELSE 0)
    + (IF org.has_public_financials THEN 5 ELSE 0)
    + (IF org.impact_statement THEN 2 ELSE 0)
    + (IF org.impact_metric THEN 2 ELSE 0)

(* calculate_org_credibility without the cap at 1.0. *)
CalculateOrgCredibilityUncapped(org) ==
    [score |-> Rat(OrgPoints(org), 50), reasons |-> <<>>]

CalculateOrgCredibility(org) ==
    [score |-> RMin(Rat(OrgPoints(org), 50), R(1)),
     reasons |->
        (IF org.is_givewell_top_charity
         THEN <<Reason("GiveWell Top Charity (rigorous impact evaluation)", <<>>)>> ELSE <<>>)
        \o (IF org.is_80k_recommended
            THEN <<Reason("Recommended by 80,000 Hours", <<>>)>> ELSE <<>>)
        \o (IF ~org.is_bcorp_certified THEN <<>>
            ELSE IF Truthy(org.bcorp_score) /\ org.bcorp_score >= 100
                 THEN <<Reason("B Corp Certified (Score: {score})", <<org.bcorp_score>>)>>
            ELSE <<Reason("B Corp Certified", <<>>)>>)
        \o (IF org.has_public_impact_report
            THEN <<Reason("Publishes impact reports", <<>>)>> ELSE <<>>)
        \o (IF org.has_public_financials
            THEN <<Reason("Transparent financials", <<>>)>> ELSE <<>>)]

(* The largest point value among the keywords found in the title (0: none). *)
RECURSIVE MaxPoints(_)
MaxPoints(keywords) ==
    IF keywords = {} THEN 0
    ELSE LET k == CHOOSE x \in keywords : TRUE
             rest == MaxPoints(keywords \ {k})
         IN  IF ROLE_LEVERAGE_KEYWORDS[k] > rest THEN ROLE_LEVERAGE_KEYWORDS[k] ELSE rest

CalculateRoleLeverage(job_title) ==
    LET found == MaxPoints(RoleKeywordsIn[job_title])
        max_score == IF found = 0 THEN 10 ELSE found
    IN  IF job_title = "" THEN [score |-> Rat(3, 10), reasons |-> <<>>]
        ELSE [score |-> Rat(max_score, 30),
              reasons |->
                IF found # 0 /\ max_score >= 20
                THEN <<Reason("Senior-level role with high organizational leverage", <<>>)>>
                ELSE IF found # 0 /\ max_score >= 14
                THEN <<Reason("Mid-senior role with moderate organizational leverage", <<>>)>>
                ELSE <<>>]

(* The loop over SCARCE_SKILLS for one skill: the first entry, in the      *)
(* order of the dict, whose name contains the skill or is contained in it  *)
(* decides (the loop breaks there); tenths, 10 when no entry matches.      *)
RECURSIVE FirstScarce(_, _)
FirstScarce(skill, k) ==
    IF k > Len(SCARCE_SKILLS) THEN 0
    ELSE IF SCARCE_SKILLS[k][1] \in ScarceNamesMatching[skill] THEN k
    ELSE FirstScarce(skill, k + 1)

ScarcityMultiplier(skill) ==
    LET k == FirstScarce(skill, 1)
    IN  IF k = 0 THEN 10
        ELSE IF SCARCE_SKILLS[k][2] > 10 THEN SCARCE_SKILLS[k][2] ELSE 10

IsScarce(skill) ==
    LET k == FirstScarce(skill, 1) IN k # 0 /\ SCARCE_SKILLS[k][2] >= 13

(* calculate_skill_scarcity without the shift by 0.5. *)
CalculateSkillScarcityUnshifted(seeker_skills, job_skills, seed) ==
    LET overlap == seeker_skills \cap job_skills
        order == ListOfSet(overlap, seed)
        total == SumSeq([i \in 1..Len(order) |-> ScarcityMultiplier(order[i])])
    IN  IF seeker_skills = {} \/ job_skills = {} THEN [score |-> Rat(1, 2), reasons |-> <<>>]
        ELSE IF overlap = {} THEN [score |-> Rat(3, 10), reasons |-> <<>>]
        ELSE [score |-> RMin(Rat(total, 10 * Cardinality(overlap)), R(1)), reasons |-> <<>>]

CalculateSkillScarcity(seeker_skills, job_skills, seed) ==
    LET overlap == seeker_skills \cap job_skills
        order == ListOfSet(overlap, seed)
        total == SumSeq([i \in 1..Len(order) |-> ScarcityMultiplier(order[i])])
        avg == Rat(total, 10 * Cardinality(overlap))
        found == SelectSeq(order, IsScarce)
    IN  IF seeker_skills = {} \/ job_skills = {} THEN [score |-> Rat(1, 2), reasons |-> <<>>]
        ELSE IF overlap = {} THEN [score |-> Rat(3, 10), reasons |-> <<>>]
        ELSE [score |-> RMin(RSub(avg, Rat(1, 2)), R(1)),
              reasons |-> IF found # <<>>
                          THEN <<ReasonNaming("Your skills ({skills}) are in high demand for impact roles",
                                              Take(found, 3))>>
                          ELSE <<>>]

CalculateImpactPotential(s, j, seed) ==
    LET org == CalculateOrgCredibility(j.organization)
        role == CalculateRoleLeverage(j.title)
        scarcity == CalculateSkillScarcity(s.skills, j.skills, seed)
    IN  [score |-> RAdd(RMul(org.score, Rat(40, 100)),
                   RAdd(RMul(role.score, Rat(30, 100)),
                        RMul(scarcity.score, Rat(30, 100)))),
         org_credibility |-> org.score,
         role_leverage |-> role.score,
         skill_scarcity |-> scarcity.score,
         reasons |-> org.reasons \o role.reasons \o scarcity.reasons]

GetImpactTier(score) ==
    IF RLeq(Rat(75, 100), score) THEN "exceptional"
    ELSE IF RLeq(Rat(55, 100), score) THEN "high"
    ELSE IF RLeq(Rat(35, 100), score) THEN "moderate"
    ELSE "standard"

-----------------------------------------------------------------------------
(* UnifiedMatchingService: the lexical score and the combiner *)

(* _build_search_query(seeker) is the empty string exactly when it added no *)
(* term: no skill, no impact area, no work style of the keyword table.     *)
SearchQueryIsEmpty(s) ==
    /\ s.skills = {}
    /\ s.impact_areas = {}
    /\ ~(s.work_style # "" /\ s.work_style \in DOMAIN WORK_STYLE_KEYWORDS)

(* j.fts_rank is what SearchRank gives the job's search_vector for the      *)
(* seeker's query, in thousandths.                                         *)
CalculateLexicalScore(s, j) ==
    IF SearchQueryIsEmpty(s) \/ ~j.search_vector THEN R(50)
    ELSE IF j.fts_rank # 0 THEN RMin(R(100), RMul(Rat(j.fts_rank, 1000), R(100)))
    ELSE R(50)

(* _score_candidate with the semantic reason appended after the profile   *)
(* reasons instead of inserted before them.                                *)
ScoreCandidateReasonLast(s, j, semantic_score, seed) ==
    LET prof == CalculateProfileScore(s, j, seed)
        all_reasons ==
            IF RLeq(R(80), semantic_score)
            THEN prof.reasons \o <<Reason("Strong semantic match with your profile", <<>>)>>
            ELSE IF RLeq(R(65), semantic_score)
            THEN prof.reasons \o <<Reason("Good relevance to your background", <<>>)>>
            ELSE prof.reasons
    IN  [job |-> j.id, reasons |-> Take(all_reasons, 5), gaps |-> Take(prof.gaps, 5)]

ScoreCandidate(s, j, semantic_score, seed) ==
    LET lexical_score == CalculateLexicalScore(s, j)
        prof == CalculateProfileScore(s, j, seed)
        impact_data == CalculateImpactPotential(s, j, seed)
        impact_score == RMul(impact_data.score, R(100))
        final_score == RAdd(RMul(semantic_score, Rat(35, 100)),
                       RAdd(RMul(lexical_score, Rat(15, 100)),
                       RAdd(RMul(prof.score, Rat(30, 100)),
                            RMul(impact_score, Rat(20, 100)))))
        all_reasons ==
            IF RLeq(R(80), semantic_score)
            THEN <<Reason("Strong semantic match with your profile", <<>>)>> \o prof.reasons
            ELSE IF RLeq(R(65), semantic_score)
            THEN <<Reason("Good relevance to your background", <<>>)>> \o prof.reasons
            ELSE prof.reasons
    IN  [job |-> j.id,
         score |-> RoundTenth(final_score),
         semantic_score |-> RoundTenth(semantic_score),
         lexical_score |-> RoundTenth(lexical_score),
         profile_score |-> RoundTenth(prof.score),
         impact_score |-> RoundTenth(impact_score),
         impact_tier |-> GetImpactTier(impact_data.score),
         reasons |-> Take(all_reasons, 5),
         gaps |-> Take(prof.gaps, 5),
         impact_reasons |-> impact_data.reasons]

-----------------------------------------------------------------------------
(* vector_search.compute_structured_score.  Python raises TypeError when it *)
(* orders a number and None; the outcome is the score or the raise.        *)

Raised == [raised |-> TRUE, value |-> R(0)]
Returned(v) == [raised |-> FALSE, value |-> v]

ComputeStructuredScore(s, j) ==
    LET category == IF Truthy(j.category) /\ j.category \in s.impact_areas
                    THEN Rat(35, 100) ELSE R(0)
        overlap == Rat(Cardinality(s.skills \cap j.skills), Cardinality(j.skills))
        skills == IF s.skills # {} /\ j.skills # {}
                  THEN RMul(Rat(25, 100), RMin(RMul(overlap, R(2)), R(1))) ELSE R(0)
        salaryTested == Truthy(s.salary_min) /\ Truthy(j.salary_max) /\ Truthy(j.salary_min)
        salary == IF /\ salaryTested
                     /\ s.salary_max # None
                     /\ j.salary_min <= s.salary_max
                     /\ j.salary_max >= s.salary_min
                  THEN Rat(20, 100) ELSE R(0)
        types == IF s.job_types # {} /\ j.job_type \in s.job_types
                 THEN Rat(20, 100) ELSE R(0)
    IN  IF salaryTested /\ s.salary_max = None THEN Raised
        ELSE Returned(RAdd(category, RAdd(skills, RAdd(salary, types))))

-----------------------------------------------------------------------------
(* The inputs of the scorers. *)

(* _retrieve_candidates: (1 - job.distance) * 100, the distance in tenths. *)
SemanticOfDistance(d) == Rat((10 - d) * 100, 10)

(* The neutral semantic score of the fallback path. *)
FallbackSemantic == R(50)

(* Cosine distances (tenths) over the range 0..2 of the pgvector operator. *)
Distances == {0, 3, 10, 20}

Categories == {1, 2}

NoOrgSignals ==
    [is_givewell_top_charity |-> FALSE, is_80k_recommended |-> FALSE,
     is_bcorp_certified |-> FALSE, bcorp_score |-> None,
     has_public_impact_report |-> FALSE, has_public_financials |-> FALSE,
     impact_statement |-> FALSE, impact_metric |-> FALSE]

AllOrgSignals ==
    [is_givewell_top_charity |-> TRUE, is_80k_recommended |-> TRUE,
     is_bcorp_certified |-> TRUE, bcorp_score |-> 135,
     has_public_impact_report |-> TRUE, has_public_financials |-> TRUE,
     impact_statement |-> TRUE, impact_metric |-> TRUE]

BCorpOnly == [NoOrgSignals EXCEPT !.is_bcorp_certified = TRUE, !.bcorp_score = 101]

Seeker(skills, areas, level, style, types, smin, smax) ==
    [skills |-> skills, impact_areas |-> areas, experience_level |-> level,
     work_style |-> style, job_types |-> types, salary_min |-> smin,
     salary_max |-> smax, impact_statement |-> ""]

Job(id, title, description, requirements, skills, category, type, smin, smax, org, sv, rank) ==
    [id |-> id, title |-> title, description |-> description,
     requirements |-> requirements, skills |-> skills, category |-> category,
     job_type |-> type, salary_min |-> smin, salary_max |-> smax,
     organization |-> org, search_vector |-> sv, fts_rank |-> rank]

TechSkills == {"python", "aws", "sql"}

(* The seekers and jobs of the scoring specification: every optional field *)
(* absent and present, on both sides.                                      *)
ScoreSeekers ==
    {Seeker(sk, ar, lv, ws, jt, sal[1], sal[2]) :
        sk \in {{}, TechSkills},
        ar \in {{}, {1}},
        lv \in {"", "leadership"},
        ws \in {"", "builder"},
        jt \in {{}, {"full-time"}},
        sal \in {<<None, None>>, <<80000, None>>, <<None, 120000>>, <<80000, 120000>>}}

ScoreJobs ==
    {Job(1, txt[1], txt[2], "", sk, cat, "full-time", sal[1], sal[2], org, lex[1], lex[2]) :
        txt \in {<<"Senior Software Engineer",
                   "Build and design backend software for our platform using Python and SQL.">>,
                 <<"Program Intern", "">>},
        sk \in {{}, TechSkills \cup {"fundraising"}},
        cat \in {None, 2},
        sal \in {<<None, None>>, <<50000, None>>, <<None, 90000>>, <<50000, 90000>>},
        org \in {NoOrgSignals, AllOrgSignals},
        lex \in {<<TRUE, 20>>, <<TRUE, 1500>>}}

SemanticScores == {SemanticOfDistance(d) : d \in Distances} \cup {FallbackSemantic}

-----------------------------------------------------------------------------
(* The two worker processes that serve a seeker's calls: each has the hash *)
(* seed it was started with.                                               *)

MaxSeed == 1

Workers == {1, 2}
Seeds == 0..MaxSeed

NoResult == [job |-> 0]
NoOutcome == [raised |-> FALSE, value |-> R(0 - 1)]
NoSkillsOut == [score |-> R(0 - 1), gaps |-> <<>>, reasons |-> <<>>]

(* A worker scores the candidate: _score_candidate(seeker, job, semantic). *)
ScoreCandidateCall(w) ==
    /\ results' = [results EXCEPT ![w] = ScoreCandidate(seeker, job, semantic, hashSeed[w])]
    /\ UNCHANGED <<seeker, job, semantic, hashSeed, skillsOut, structuredOut>>
    /\ UNCHANGED <<storeVars, wizardVars, restVars>>

(* _score_skills(seeker, job, reasons), called on its own. *)
ScoreSkillsCall(w) ==
    /\ skillsOut' = ScoreSkills(seeker, job, hashSeed[w])
    /\ UNCHANGED <<seeker, job, semantic, hashSeed, results, structuredOut>>
    /\ UNCHANGED <<storeVars, wizardVars, restVars>>

(* compute_structured_score(seeker, job), as views/jobs.py calls it. *)
StructuredScoreCall ==
    /\ structuredOut' = ComputeStructuredScore(seeker, job)
    /\ UNCHANGED <<seeker, job, semantic, hashSeed, results, skillsOut>>
    /\ UNCHANGED <<storeVars, wizardVars, restVars>>

-----------------------------------------------------------------------------
(* The store and the wizard at rest, for the specifications of the scorers. *)

NoCall == [op |-> "none"]

IdleStore ==
    /\ jobsDb = <<>>
    /\ now = 0
    /\ lastCall = NoCall

(* The embedding column: NULL, or the vector of a text.  The vector is a  *)
(* function of the text embed_seeker joins from the profile's parts, so    *)
(* the model keeps the parts.                                              *)
NoEmbedding == [none |-> TRUE, text |-> <<>>]

(* SeekerProfile.objects.get_or_create(user=user): the column defaults *)
NewProfile ==
    [impact_areas |-> {}, work_style |-> "", skills |-> {}, impact_statement |-> "",
     wizard_step |-> 0, wizard_completed |-> FALSE, embedding |-> NoEmbedding]

IdleWizard == profile = NewProfile

(* No seeker in the pool and no candidate search in progress. *)
IdlePool ==
    /\ seekersDb = <<>>
    /\ poolCall = NoCall

(* The gig users and their UserProfile.account_type ("none": no profile). *)
GigUsers == {"seeker", "employer", "other_employer", "no_profile"}

AccountType(user) ==
    IF user = "seeker" THEN "seeker"
    ELSE IF user \in {"employer", "other_employer"} THEN "employer"
    ELSE "none"

(* What the tables hold for a (gig, user) pair: the number of              *)
(* GigApplication rows and their status, the number of Trial rows and      *)
(* their funding_status ("none" without a trial), the numbers of           *)
(* Submission and Review rows.                                             *)
NoApplication ==
    [count |-> 0, status |-> "", trials |-> 0, trial |-> "none",
     submissions |-> 0, reviews |-> 0]

IdleGigs ==
    /\ applications = [u \in GigUsers |-> NoApplication]
    /\ gigCall = NoCall

(* The users being onboarded; account_type is "none" without a            *)
(* UserProfile.                                                            *)
OnboardUsers == {"u1", "u2"}

NoRedirectYet == [user |-> "", called |-> FALSE, target |-> ""]

IdleOnboard ==
    /\ accounts = [u \in OnboardUsers |-> [account_type |-> "none", organizations |-> 0]]
    /\ onboardOut = NoRedirectYet

NoLegacyMatch == [called |-> FALSE]

IdleLegacy == legacyOut = NoLegacyMatch

NotMatching == [pc |-> "idle", limit |-> 0, candidates |-> <<>>, scored |-> <<>>,
                value |-> <<>>]

IdleMatching ==
    /\ matching = [w \in {1, 2} |-> NotMatching]
    /\ modelLoaded = [w \in {1, 2} |-> FALSE]
    /\ jobMatches = {}

NoSubScore == [op |-> "none"]

IdleSubScore == subScoreOut = NoSubScore

(* AssistantSubscription's column defaults: 3 free uses. *)
FreeUses == 3

NewSubscription == [free_uses_remaining |-> FreeUses, total_uses |-> 0, is_subscribed |-> FALSE]

IdleAssistant ==
    assistant = [subscription |-> NewSubscription, generations |-> 0, successes |-> 0,
                 started |-> 0,
                 request |-> [w \in {1, 2} |->
                                [pc |-> "idle", code |-> 0, subscription |-> NewSubscription]]]

IdleRest ==
    /\ IdlePool /\ IdleGigs /\ IdleOnboard /\ IdleLegacy /\ IdleMatching /\ IdleSubScore
    /\ IdleAssistant

(* The scoring specification: one worker scores a drawn (seeker, job,      *)
(* semantic score) and the job-list view computes the structured score.    *)
InitScore ==
    /\ seeker \in ScoreSeekers
    /\ job \in ScoreJobs
    /\ semantic \in SemanticScores
    /\ hashSeed = [w \in Workers |-> 0]
    /\ results = [w \in Workers |-> NoResult]
    /\ skillsOut = NoSkillsOut
    /\ structuredOut = NoOutcome
    /\ IdleStore
    /\ IdleWizard
    /\ IdleRest

NextScore ==
    \/ ScoreCandidateCall(1)
    \/ StructuredScoreCall

SpecScore == InitScore /\ [][NextScore]_vars

-----------------------------------------------------------------------------
(* The skills specification: the skill sets vary over the taxonomy sample, *)
(* the other fields are fixed, and each worker process has its own hash    *)
(* seed.                                                                   *)

MaxSeekerSkills == 2

(* The seekers' skill sets: every small one, and one of three skills. *)
SeekerSkillSets ==
    {S \in SUBSET SkillUniverse : Cardinality(S) <= MaxSeekerSkills} \cup {TechSkills}

(* Runs SkillOrder[a..b], a = 1 or 2: the empty list, and lists of up to   *)
(* seven skills with and without the first slug.                           *)
JobSkillSets == {{SkillOrder[i] : i \in a..b} : a \in {1, 2}, b \in 0..Len(SkillOrder)}

SkillSeekers ==
    {Seeker(S, {1}, "senior", "builder", {"full-time"}, 80000, 120000) :
        S \in SeekerSkillSets}

SkillJobs ==
    {Job(1, "Senior Software Engineer",
         "Build and design backend software for our platform using Python and SQL.",
         "Grant writing and data analysis experience.",
         J, 1, "full-time", 50000, 90000, BCorpOnly, TRUE, 300) :
        J \in JobSkillSets}

InitSkills ==
    /\ seeker \in SkillSeekers
    /\ job \in SkillJobs
    /\ semantic = FallbackSemantic
    /\ hashSeed \in [Workers -> Seeds]
    /\ results = [w \in Workers |-> NoResult]
    /\ skillsOut = NoSkillsOut
    /\ structuredOut = NoOutcome
    /\ IdleStore
    /\ IdleWizard
    /\ IdleRest

NextSkills ==
    \/ \E w \in Workers : ScoreCandidateCall(w)
    \/ ScoreSkillsCall(1)

SpecSkills == InitSkills /\ [][NextSkills]_vars

-----------------------------------------------------------------------------
(* Ranges *)

InRange(x) == RLeq(R(0), x) /\ RLeq(x, R(100))

Scored(w) == results[w] # NoResult

(* C1: for every seeker, job and semantic score of retrieval (distance     *)
(* 0..2 or the fallback value), the final score of _score_candidate is     *)
(* between 0 and 100.                                                      *)
C1_FinalScoreInRange ==
    \A w \in Workers : Scored(w) => InRange(results[w].score)

(* C9: the four components of the weighted sum (semantic, lexical, profile, *)
(* impact) and the five profile sub-scores each lie in [0,100] before the  *)
(* weights are applied.                                                    *)
C9_ComponentsInRange ==
    Scored(1) =>
        LET p == ProfileParts(seeker, job, hashSeed[1])
        IN  /\ InRange(semantic)
            /\ InRange(CalculateLexicalScore(seeker, job))
            /\ InRange(CalculateProfileScore(seeker, job, hashSeed[1]).score)
            /\ InRange(RMul(CalculateImpactPotential(seeker, job, hashSeed[1]).score, R(100)))
            /\ InRange(p.impact_area.score)
            /\ InRange(p.skills.score)
            /\ InRange(p.experience.score)
            /\ InRange(p.work_style.score)
            /\ InRange(p.preferences.score)

(* C8: whatever optional fields are absent on the seeker or the job, the   *)
(* scorers return a score and do not raise; a seeker with salary_min set   *)
(* and salary_max absent is scored without error.                          *)
C8_ScorersNeverRaise ==
    /\ structuredOut.raised = FALSE
    /\ \A w \in Workers : Scored(w) => results[w].score \in Int \X Int

-----------------------------------------------------------------------------
(* Skill gaps, repeatability and monotonicity *)

Missing == job.skills \ seeker.skills

(* C2: the gaps of a match result are at most 5, and each is the label of  *)
(* a skill that is in job.skills and not in seeker.skills; none names a    *)
(* skill the seeker has.                                                   *)
C2_GapsAreMissingSkills ==
    \A w \in Workers : Scored(w) =>
        /\ Len(results[w].gaps) <= 5
        /\ \A i \in 1..Len(results[w].gaps) :
              /\ \E slug \in Missing : results[w].gaps[i] = SkillLabel(slug)
              /\ \A slug \in seeker.skills : results[w].gaps[i] # SkillLabel(slug)

(* A scored job with more than five missing skills and one the seeker has. *)
C2_Witness ==
    /\ Scored(1)
    /\ Cardinality(Missing) > 5
    /\ seeker.skills \cap job.skills # {}
    /\ Len(results[1].gaps) = 5

(* C3: two calls of _score_candidate on the same seeker, job and semantic  *)
(* score, with nothing stored changed in between, return the same result   *)
(* in every field, the gaps in the same order too.                         *)
C3_SameResultEveryCall ==
    \A v, w \in Workers : Scored(v) /\ Scored(w) => results[v] = results[w]

(* The skills sub-score once skill k is added to the seeker's skills. *)
SkillsScoreWith(k) ==
    ScoreSkills([seeker EXCEPT !.skills = @ \cup {k}], job, hashSeed[1]).score

SkillsCalled == skillsOut # NoSkillsOut

(* C4 as stated: for every seeker skill set S, the empty one included, and *)
(* every k in J \ S, the skills sub-score for S with k is at least the     *)
(* sub-score for S.                                                        *)
C4_AddingSkillNeverLowers ==
    SkillsCalled => \A k \in Missing : RLeq(skillsOut.score, SkillsScoreWith(k))

(* C4, for the seekers who have a skill: for every non-empty S and every k *)
(* in J \ S, the skills sub-score for S with k is at least the sub-score   *)
(* for S.                                                                  *)
C4_AddingSkillNeverLowersNonEmpty ==
    SkillsCalled /\ seeker.skills # {} =>
        \A k \in Missing : RLeq(skillsOut.score, SkillsScoreWith(k))

(* A seeker with a skill is scored against a job that lists a skill the    *)
(* seeker lacks, and adding it raises the sub-score.                       *)
C4_Witness ==
    /\ SkillsCalled
    /\ seeker.skills # {}
    /\ \E k \in Missing : RLt(skillsOut.score, SkillsScoreWith(k))

(* C18 as stated: the skills sub-score is 50 for a seeker without skills;  *)
(* when seeker and job both have skills it is the overlap ratio times 100, *)
(* raised to at least 35 once the overlap is non-empty, plus 10 (at most   *)
(* 100) when the overlap has three skills or more.                         *)
Overlap == seeker.skills \cap job.skills

OverlapRatio == Rat(100 * Cardinality(Overlap), Cardinality(job.skills))

WithOverlapBonus(x) ==
    IF Cardinality(Overlap) >= 3 THEN RMin(R(100), RAdd(x, R(10))) ELSE x

C18_SkillsSubScoreFlooredOnOverlap ==
    SkillsCalled =>
        /\ seeker.skills = {} => skillsOut.score = R(50)
        /\ seeker.skills # {} /\ job.skills # {} =>
              skillsOut.score =
                 WithOverlapBonus(IF Overlap # {} THEN RMax(R(35), OverlapRatio)
                                  ELSE OverlapRatio)

(* C18, with the floor as the code applies it: the skills sub-score is 50  *)
(* for a seeker without skills; when seeker and job both have skills it is *)
(* the overlap ratio times 100, raised to at least 35 whether or not any   *)
(* skill overlaps, plus 10 (at most 100) when the overlap has three skills *)
(* or more.                                                                *)
C18_SkillsSubScore ==
    SkillsCalled =>
        /\ seeker.skills = {} => skillsOut.score = R(50)
        /\ seeker.skills # {} /\ job.skills # {} =>
              skillsOut.score = WithOverlapBonus(RMax(R(35), OverlapRatio))

(* Two of the job's three skills matched: 200/3, about 67, and no bonus. *)
C18_Witness ==
    /\ SkillsCalled
    /\ Cardinality(job.skills) = 3
    /\ Cardinality(Overlap) = 2
    /\ skillsOut.score = Rat(200, 3)

(* Three of the job's four skills matched: 75 and the bonus of 10. *)
C18_BonusWitness ==
    /\ SkillsCalled
    /\ Cardinality(job.skills) = 4
    /\ Cardinality(Overlap) = 3
    /\ skillsOut.score = R(85)

-----------------------------------------------------------------------------
(* The Job table.  A row is a job's content (one of the sample postings),  *)
(* its flags, and what the post_save signals have stored for it: whether   *)
(* it has an embedding and a search vector, and the cosine distance and    *)
(* the full-text rank these stored values give against the seeker.         *)

MaxJobs == 3
MaxAge == 1

CANDIDATE_LIMIT == 150

(* The sample postings: the one the form submits, the one the feeds carry. *)
FormKind == "intern"
ImportKinds == {"engineer"}

(* The content of a posting, by kind. *)
KindJob(kind, id) ==
    IF kind = "intern"
    THEN Job(id, "Program Intern", "", "", {}, None, "full-time", None, None,
             NoOrgSignals, FALSE, 0)
    ELSE Job(id, "Senior Software Engineer",
             "Build and design backend software for our platform using Python and SQL.",
             "", TechSkills \cup {"fundraising"}, 1, "full-time", 50000, 90000,
             AllOrgSignals, FALSE, 0)

(* What the embedding and the search vector of a posting of this kind give *)
(* against the seeker: CosineDistance in tenths, SearchRank in thousandths. *)
KindDistance(kind) == IF kind = "intern" THEN 3 ELSE 5
KindRank(kind) == IF kind = "intern" THEN 0 ELSE 300

NewRow(content, kind, source, active, posted_at) ==
    content @@ [kind |-> kind, source |-> source, is_active |-> active,
                posted_at |-> posted_at, embedding |-> FALSE, distance |-> 0,
                is_paid |-> FALSE]

(* post_save with update_job_search_vector alone: no embed_job_on_save. *)
PostSaveJobSearchVectorOnly(row) ==
    IF ~row.is_active THEN row
    ELSE [row EXCEPT
            !.search_vector = TRUE,
            !.fts_rank = IF row.search_vector THEN @ ELSE KindRank(row.kind)]

(* post_save: embed_job_on_save and update_job_search_vector.  Each fills  *)
(* its column from the row's content when the job is active and the column *)
(* is NULL, and leaves a column that is set as it is.                      *)
PostSaveJob(row) ==
    IF ~row.is_active THEN row
    ELSE [row EXCEPT
            !.embedding = TRUE,
            !.distance = IF row.embedding THEN @ ELSE KindDistance(row.kind),
            !.search_vector = TRUE,
            !.fts_rank = IF row.search_vector THEN @ ELSE KindRank(row.kind)]

JobIds == 1..Len(jobsDb)

(* The server handles one request at a time: an operation starts when the *)
(* value of the retrieval call before it, if any, has been delivered.      *)
Idle == lastCall = NoCall

(* JobService.create_job: the form's fields (the form's posting), job_type *)
(* "full_time", skills left at the column default, posted_at the time of   *)
(* the call, inactive; then save.  dt is the time passed since the last    *)
(* posting.                                                                *)
CreateJob(dt) ==
    /\ Idle
    /\ Len(jobsDb) < MaxJobs
    /\ now' = now + dt
    /\ LET id == Len(jobsDb) + 1
           content == [KindJob(FormKind, id) EXCEPT !.job_type = "full_time", !.skills = {}]
       IN  jobsDb' = Append(jobsDb, PostSaveJob(NewRow(content, FormKind, "manual", FALSE, now')))
    /\ UNCHANGED <<lastCall, scoreVars, wizardVars, restVars>>

(* importers.common._upsert_job, no row for (source, external_id): a new   *)
(* active job from the payload; then save.                                 *)
UpsertNewJob(kind, dt) ==
    /\ Idle
    /\ Len(jobsDb) < MaxJobs
    /\ now' = now + dt
    /\ LET id == Len(jobsDb) + 1
       IN  jobsDb' = Append(jobsDb,
                        PostSaveJob(NewRow(KindJob(kind, id), kind, "import", TRUE, now')))
    /\ UNCHANGED <<lastCall, scoreVars, wizardVars, restVars>>

(* _upsert_job, the row exists: the payload's fields (the same posting,    *)
(* fetched again) overwrite the row's and is_active becomes True; then     *)
(* save.                                                                   *)
UpsertExistingJob(id) ==
    /\ Idle
    /\ id \in JobIds
    /\ jobsDb[id].source = "import"
    /\ jobsDb' = [jobsDb EXCEPT ![id] = PostSaveJob([jobsDb[id] EXCEPT !.is_active = TRUE])]
    /\ UNCHANGED <<now, lastCall, scoreVars, wizardVars, restVars>>

(* PaymentService.verify_payment(session_id, job_id).  When the Stripe      *)
(* session is paid and the job read back is not paid yet, the job becomes  *)
(* paid and active and is saved.  An unpaid session, a job already paid,   *)
(* and every exception inside the handler (the Stripe call failing; the    *)
(* AttributeError of `job.is_paid` where the Job table has no such column, *)
(* as in models.py, which declares is_paid on Sprint only) save nothing.   *)
VerifyPayment(id, payment_status) ==
    /\ Idle
    /\ id \in JobIds
    /\ IF payment_status = "paid" /\ ~jobsDb[id].is_paid
       THEN jobsDb' = [jobsDb EXCEPT ![id] =
                          PostSaveJob([jobsDb[id] EXCEPT !.is_paid = TRUE, !.is_active = TRUE])]
       ELSE UNCHANGED jobsDb
    /\ UNCHANGED <<now, lastCall, scoreVars, wizardVars, restVars>>

(* The admin's change form: is_active edited, then save. *)
AdminSaveJob(id, active) ==
    /\ Idle
    /\ id \in JobIds
    /\ jobsDb' = [jobsDb EXCEPT ![id] = PostSaveJob([jobsDb[id] EXCEPT !.is_active = active])]
    /\ UNCHANGED <<now, lastCall, scoreVars, wizardVars, restVars>>

(* A crawler finds the posting gone (404): is_active = False, then save. *)
CrawlJobNotFound(id) ==
    /\ Idle
    /\ id \in JobIds
    /\ jobsDb[id].source = "import"
    /\ jobsDb[id].is_active
    /\ jobsDb' = [jobsDb EXCEPT ![id] = PostSaveJob([jobsDb[id] EXCEPT !.is_active = FALSE])]
    /\ UNCHANGED <<now, lastCall, scoreVars, wizardVars, restVars>>

(* cleanup_jobs --max-age: the active jobs posted before the cutoff are    *)
(* deactivated by a queryset update (no row of the model has expires_at).  *)
CleanupJobs(max_age) ==
    /\ Idle
    /\ jobsDb' = [id \in JobIds |->
                    IF jobsDb[id].is_active /\ jobsDb[id].posted_at < now - max_age
                    THEN [jobsDb[id] EXCEPT !.is_active = FALSE]
                    ELSE jobsDb[id]]
    /\ UNCHANGED <<now, lastCall, scoreVars, wizardVars, restVars>>

-----------------------------------------------------------------------------
(* Retrieval and ranking over the Job table *)

(* embed_seeker returns None exactly when the profile gives it no part. *)
SeekerHasParts(s) ==
    \/ s.impact_statement # ""
    \/ s.impact_areas # {}
    \/ s.skills # {}
    \/ s.work_style # ""

(* Every row, active or not. *)
AllJobs == JobIds

(* Job.objects.filter(is_active=True) *)
ActiveJobs == {id \in JobIds : jobsDb[id].is_active}

(* Job.objects.filter(is_active=True, embedding__isnull=False) *)
ActiveEmbeddedJobs == {id \in ActiveJobs : jobsDb[id].embedding}

(* The orders in which a query may return a set of rows: any row that no  *)
(* other row precedes in the ordering comes first, then the rest likewise; *)
(* rows the ordering does not tell apart come in any order.                *)

(* order_by('posted_at'): the oldest first *)
RECURSIVE OldestFirst(_)
OldestFirst(ids) ==
    IF ids = {} THEN {<<>>}
    ELSE UNION {{<<x>> \o rest : rest \in OldestFirst(ids \ {x})} :
                  x \in {y \in ids : \A z \in ids : jobsDb[y].posted_at <= jobsDb[z].posted_at}}

(* order_by('-posted_at') *)
RECURSIVE MostRecentFirst(_)
MostRecentFirst(ids) ==
    IF ids = {} THEN {<<>>}
    ELSE UNION {{<<x>> \o rest : rest \in MostRecentFirst(ids \ {x})} :
                  x \in {y \in ids : \A z \in ids : jobsDb[y].posted_at >= jobsDb[z].posted_at}}

(* order_by('distance') *)
RECURSIVE NearestFirst(_)
NearestFirst(ids) ==
    IF ids = {} THEN {<<>>}
    ELSE UNION {{<<x>> \o rest : rest \in NearestFirst(ids \ {x})} :
                  x \in {y \in ids : \A z \in ids : jobsDb[y].distance <= jobsDb[z].distance}}

(* _retrieve_candidates(seeker, limit), given the order the query returned *)
RetrieveCandidates(s, limit, order) ==
    LET jobs == Take(order, limit)
    IN  IF ~SeekerHasParts(s)
        THEN [i \in 1..Len(jobs) |-> [job |-> jobs[i], semantic |-> FallbackSemantic]]
        ELSE [i \in 1..Len(jobs) |->
                [job |-> jobs[i], semantic |-> SemanticOfDistance(jobsDb[jobs[i]].distance)]]

(* The orders the query of _retrieve_candidates and of                     *)
(* search_jobs_for_seeker may return for this seeker.                      *)
QueryOrders(s) ==
    IF ~SeekerHasParts(s) THEN MostRecentFirst(ActiveJobs)
    ELSE NearestFirst(ActiveEmbeddedJobs)

(* An insertion that puts an element before the elements of equal score. *)
RECURSIVE InsertBeforeEqual(_, _)
InsertBeforeEqual(r, sorted) ==
    IF sorted = <<>> THEN <<r>>
    ELSE IF RLeq(Head(sorted).score, r.score) THEN <<r>> \o sorted
    ELSE <<Head(sorted)>> \o InsertBeforeEqual(r, Tail(sorted))

(* list.sort(key=lambda r: r.score, reverse=True): a stable sort, so an    *)
(* element goes behind every element whose score is at least its own.      *)
RECURSIVE InsertBehindEqual(_, _)
InsertBehindEqual(r, sorted) ==
    IF sorted = <<>> THEN <<r>>
    ELSE IF RLt(Head(sorted).score, r.score) THEN <<r>> \o sorted
    ELSE <<Head(sorted)>> \o InsertBehindEqual(r, Tail(sorted))

RECURSIVE SortByScore(_)
SortByScore(rs) ==
    IF rs = <<>> THEN <<>>
    ELSE InsertBehindEqual(rs[Len(rs)], SortByScore(SubSeq(rs, 1, Len(rs) - 1)))

(* get_matches(seeker, limit), given the candidates retrieval returned *)
GetMatches(s, limit, candidates, seed) ==
    LET scored == [i \in 1..Len(candidates) |->
                     ScoreCandidate(s, jobsDb[candidates[i].job], candidates[i].semantic, seed)]
    IN  Take(SortByScore(scored), limit)

(* search_jobs_for_seeker(seeker, limit), given the order the query         *)
(* returned; in a row, `score` is the tuple's [1], the key of the sort.    *)
SearchJobsForSeeker(s, limit, order) ==
    LET jobs == Take(order, limit * 3)
        ranked == ~SearchQueryIsEmpty(s)
        rank(id) == IF ranked THEN jobsDb[id].fts_rank ELSE 0
        top == CHOOSE m \in {rank(jobs[i]) : i \in 1..Len(jobs)} \cup {0} :
                  \A i \in 1..Len(jobs) : rank(jobs[i]) <= m
        max_fts == IF jobs = <<>> \/ top = 0 THEN 1000 ELSE top
        row(id) ==
            LET sem == Rat(10 - jobsDb[id].distance, 10)
                fts == Rat(rank(id), max_fts)
                text_score == RAdd(RMul(sem, Rat(6, 10)), RMul(fts, Rat(4, 10)))
                structured == ComputeStructuredScore(s, jobsDb[id])
            IN  [job |-> id,
                 score |-> RAdd(RMul(text_score, Rat(6, 10)), RMul(structured.value, Rat(4, 10))),
                 semantic |-> sem, fts |-> fts, structured |-> structured.value]
        raises == \E i \in 1..Len(jobs) : ComputeStructuredScore(s, jobsDb[jobs[i]]).raised
    IN  IF ~SeekerHasParts(s)
        THEN Returned([i \in 1..Len(Take(order, limit)) |->
                         [job |-> order[i], score |-> R(0), semantic |-> R(0),
                          fts |-> R(0), structured |-> R(0)]])
        ELSE IF raises THEN [raised |-> TRUE, value |-> <<>>]
        ELSE Returned(Take(SortByScore([i \in 1..Len(jobs) |-> row(jobs[i])]), limit))

(* The limits the callers pass: fewer rows than the table can hold. *)
Limits == {1, 2}

RetrieveCandidatesCall(limit) ==
    /\ Idle
    /\ \E order \in QueryOrders(seeker) :
          lastCall' = [op |-> "_retrieve_candidates", limit |-> limit, raised |-> FALSE,
                       candidates |-> RetrieveCandidates(seeker, limit, order),
                       value |-> RetrieveCandidates(seeker, limit, order)]
    /\ UNCHANGED <<jobsDb, now, scoreVars, wizardVars, restVars>>

GetMatchesCall(limit) ==
    /\ Idle
    /\ \E order \in QueryOrders(seeker) :
          LET candidates == RetrieveCandidates(seeker, CANDIDATE_LIMIT, order)
          IN  lastCall' = [op |-> "get_matches", limit |-> limit, raised |-> FALSE,
                           candidates |-> candidates,
                           value |-> GetMatches(seeker, limit, candidates, hashSeed[1])]
    /\ UNCHANGED <<jobsDb, now, scoreVars, wizardVars, restVars>>

SearchJobsCall(limit) ==
    /\ Idle
    /\ \E order \in QueryOrders(seeker) :
          LET out == SearchJobsForSeeker(seeker, limit, order)
          IN  lastCall' = [op |-> "search_jobs_for_seeker", limit |-> limit,
                           raised |-> out.raised,
                           candidates |-> [i \in 1..Len(Take(order, limit * 3)) |->
                                             [job |-> order[i], semantic |-> R(0)]],
                           value |-> out.value]
    /\ UNCHANGED <<jobsDb, now, scoreVars, wizardVars, restVars>>

(* The view renders the list it was returned and the request ends. *)
Respond ==
    /\ ~Idle
    /\ lastCall' = NoCall
    /\ UNCHANGED <<jobsDb, now, scoreVars, wizardVars, restVars>>

-----------------------------------------------------------------------------
(* The store specification: a seeker with an empty profile or a full one,  *)
(* and the Job table changing under them.  Its payment verifications are   *)
(* of sessions that are not paid or that fail; the paid ones, which leave  *)
(* a row as an admin's activation does but for is_paid, which no retrieval *)
(* reads, are in the payment specification.                                *)

EmptySeeker == Seeker({}, {}, "senior", "", {"full-time"}, 80000, 120000)

FullSeeker ==
    [Seeker(TechSkills, {1}, "senior", "builder", {"full-time"}, 80000, 120000)
        EXCEPT !.impact_statement = "I build software for climate organisations."]

StoreSeekers == {EmptySeeker, FullSeeker}

InitStore ==
    /\ seeker \in StoreSeekers
    /\ job = KindJob(FormKind, 1)
    /\ semantic = FallbackSemantic
    /\ hashSeed = [w \in Workers |-> 0]
    /\ results = [w \in Workers |-> NoResult]
    /\ skillsOut = NoSkillsOut
    /\ structuredOut = NoOutcome
    /\ IdleStore
    /\ IdleWizard
    /\ IdleRest

NextStore ==
    \/ \E dt \in {0, 1} : CreateJob(dt)
    \/ \E kind \in ImportKinds, dt \in {0, 1} : UpsertNewJob(kind, dt)
    \/ \E id \in JobIds : UpsertExistingJob(id)
    \/ \E id \in JobIds, payment_status \in {"unpaid", "error"} :
          VerifyPayment(id, payment_status)
    \/ \E id \in JobIds, active \in BOOLEAN : AdminSaveJob(id, active)
    \/ \E id \in JobIds : CrawlJobNotFound(id)
    \/ \E max_age \in 0..MaxAge : CleanupJobs(max_age)
    \/ \E limit \in Limits : RetrieveCandidatesCall(limit)
    \/ \E limit \in Limits : GetMatchesCall(limit)
    \/ \E limit \in Limits : SearchJobsCall(limit)
    \/ Respond

SpecStore == InitStore /\ [][NextStore]_vars

-----------------------------------------------------------------------------
(* Ranking and retrieval *)

Min(a, b) == IF a <= b THEN a ELSE b

Called(op) == lastCall.op = op

(* The position of a job in the list retrieval produced. *)
Pos(id) == CHOOSE k \in 1..Len(lastCall.candidates) : lastCall.candidates[k].job = id

(* The result of scoring the k-th candidate. *)
ScoreOfCandidate(k) ==
    ScoreCandidate(seeker, jobsDb[lastCall.candidates[k].job],
                   lastCall.candidates[k].semantic, hashSeed[1])

(* C5: get_matches(seeker, limit=N) returns the first N of the stable      *)
(* descending sort of the scored candidates: min(N, candidates) results,   *)
(* each the score of a candidate, scores non-increasing, results of equal  *)
(* score in retrieval order, and no candidate left out that should come    *)
(* before a returned one.                                                  *)
C5_FirstNOfStableSort ==
    Called("get_matches") =>
        LET v == lastCall.value
            c == lastCall.candidates
            scored == [k \in 1..Len(c) |-> ScoreOfCandidate(k)]
            pos == [i \in 1..Len(v) |-> Pos(v[i].job)]
            returned == {pos[i] : i \in 1..Len(v)}
        IN  /\ Len(v) = Min(lastCall.limit, Len(c))
            /\ \A i \in 1..Len(v) : v[i] = scored[pos[i]]
            /\ \A i, k \in 1..Len(v) : i < k =>
                  /\ RLeq(v[k].score, v[i].score)
                  /\ v[k].score = v[i].score => pos[i] < pos[k]
            /\ \A k \in (1..Len(c)) \ returned : \A i \in 1..Len(v) :
                  \/ RLt(scored[k].score, v[i].score)
                  \/ scored[k].score = v[i].score /\ pos[i] < k

(* get_matches has cut three candidates to two of equal score, and the     *)
(* nearest candidate is not the best match.                                *)
C5_Witness ==
    /\ Called("get_matches")
    /\ Len(lastCall.candidates) = 3
    /\ Len(lastCall.value) = 2
    /\ lastCall.value[1].score = lastCall.value[2].score
    /\ lastCall.value[1].job # lastCall.candidates[1].job

(* C6: every job returned by get_matches, by _retrieve_candidates (vector  *)
(* path and fallback path) and by search_jobs_for_seeker is active when    *)
(* the call is made, whatever creations, activations and deactivations     *)
(* came before.                                                            *)
C6_OnlyActiveJobsReturned ==
    ~Called("none") =>
        /\ \A i \in 1..Len(lastCall.value) : jobsDb[lastCall.value[i].job].is_active
        /\ \A i \in 1..Len(lastCall.candidates) : jobsDb[lastCall.candidates[i].job].is_active

(* A call returns a job while the table holds a job created inactive and a *)
(* job that was active and has been deactivated.                           *)
C6_Witness ==
    /\ ~Called("none")
    /\ lastCall.value # <<>>
    /\ \E id \in JobIds : ~jobsDb[id].is_active /\ ~jobsDb[id].embedding
    /\ \E id \in JobIds : ~jobsDb[id].is_active /\ jobsDb[id].embedding

-----------------------------------------------------------------------------
(* The onboarding wizard and the seeker's stored embedding *)

WIZARD_STEPS ==
    <<"welcome", "impact-areas", "work-style", "experience", "skills",
      "preferences", "story", "assessment", "summary">>

StepIndex(step_slug) == CHOOSE i \in 1..Len(WIZARD_STEPS) : WIZARD_STEPS[i] = step_slug

(* embed_seeker(seeker): None when the profile has no part *)
EmbedSeeker(p) ==
    IF ~SeekerHasParts(p) THEN NoEmbedding
    ELSE [none |-> FALSE,
          text |-> <<p.impact_statement, p.impact_areas, p.skills, p.work_style>>]

(* instance.save() followed by embed_seeker_on_save: the row takes every   *)
(* column of the instance, its embedding included, and the signal embeds   *)
(* the profile only when it is completed and the instance's embedding is   *)
(* None.                                                                   *)
SaveSeeker(instance) ==
    IF instance.wizard_completed /\ instance.embedding.none
    THEN [instance EXCEPT !.embedding = EmbedSeeker(instance)]
    ELSE instance

(* _process_step(request, profile, step_slug): the instance after the step *)
(* (saved, when the step saves) and whether the step succeeded.            *)
ProcessStep(instance, step_slug, data) ==
    CASE step_slug = "impact-areas" ->
            IF data.impact_areas = {} \/ Cardinality(data.impact_areas) > 5
            THEN [ok |-> FALSE, instance |-> instance]
            ELSE [ok |-> TRUE, instance |-> [instance EXCEPT !.impact_areas = data.impact_areas]]
      [] step_slug = "work-style" ->
            IF data.work_style = "" THEN [ok |-> FALSE, instance |-> instance]
            ELSE [ok |-> TRUE, instance |-> [instance EXCEPT !.work_style = data.work_style]]
      [] step_slug = "skills" ->
            IF Cardinality(data.skills) < 3 \/ Cardinality(data.skills) > 15
            THEN [ok |-> FALSE, instance |-> instance]
            ELSE [ok |-> TRUE, instance |-> [instance EXCEPT !.skills = data.skills]]
      [] step_slug = "story" ->
            IF data.impact_statement = ""
            THEN [ok |-> FALSE, instance |-> instance]
            ELSE [ok |-> TRUE,
                  instance |-> [instance EXCEPT !.impact_statement = data.impact_statement]]
      [] step_slug = "summary" ->
            [ok |-> TRUE, instance |-> [instance EXCEPT !.wizard_completed = TRUE]]
      [] OTHER -> [ok |-> TRUE, instance |-> instance]

(* ImpactWizardStepView.post: the step is processed and, when it succeeds, *)
(* the progress is written by a second save of the same instance; the last *)
(* save decides the row.                                                   *)
WizardStepPost(step_slug, data) ==
    LET loaded == profile
        step == ProcessStep(loaded, step_slug, data)
        next_index == StepIndex(step_slug)
        advanced ==
            IF next_index >= Len(WIZARD_STEPS)
            THEN [step.instance EXCEPT !.wizard_completed = TRUE,
                                       !.wizard_step = Len(WIZARD_STEPS) - 1]
            ELSE [step.instance EXCEPT !.wizard_step = next_index]
    IN  /\ profile' = IF step.ok THEN SaveSeeker(advanced) ELSE profile
        /\ UNCHANGED <<scoreVars, storeVars, restVars>>

(* ImpactWizardSkipStepView.post *)
WizardSkipStep(step_slug) ==
    LET next_index == StepIndex(step_slug)
    IN  /\ profile' = IF next_index < Len(WIZARD_STEPS)
                      THEN SaveSeeker([profile EXCEPT !.wizard_step = next_index])
                      ELSE profile
        /\ UNCHANGED <<scoreVars, storeVars, restVars>>

(* manage.py embed_seekers [--force] *)
EmbedSeekersCommand(force) ==
    /\ profile' = IF profile.wizard_completed /\ (force \/ profile.embedding.none)
                  THEN SaveSeeker([profile EXCEPT !.embedding = EmbedSeeker(profile)])
                  ELSE profile
    /\ UNCHANGED <<scoreVars, storeVars, restVars>>

(* What the forms of the wizard submit. *)
StepData ==
    {[impact_areas |-> a, work_style |-> "builder", skills |-> s, impact_statement |-> m] :
        a \in {{}, {1}, {1, 2}},
        s \in {{"python"}, TechSkills, TechSkills \cup {"fundraising"}},
        m \in {"", "I build software for climate organisations."}}

StepSlugs == {WIZARD_STEPS[i] : i \in 1..Len(WIZARD_STEPS)}

InitWizard ==
    /\ seeker = EmptySeeker
    /\ job = KindJob(FormKind, 1)
    /\ semantic = FallbackSemantic
    /\ hashSeed = [w \in Workers |-> 0]
    /\ results = [w \in Workers |-> NoResult]
    /\ skillsOut = NoSkillsOut
    /\ structuredOut = NoOutcome
    /\ IdleStore
    /\ IdleWizard
    /\ IdleRest

NextWizard ==
    \/ \E step_slug \in StepSlugs, data \in StepData : WizardStepPost(step_slug, data)
    \/ \E step_slug \in StepSlugs : WizardSkipStep(step_slug)
    \/ \E force \in BOOLEAN : EmbedSeekersCommand(force)

SpecWizard == InitWizard /\ [][NextWizard]_vars

(* C10: the stored embedding of a wizard-completed profile is the          *)
(* embedding of its current content, after any sequence of wizard step     *)
(* submissions and saves.                                                  *)
C10_StoredEmbeddingIsCurrent ==
    profile.wizard_completed => profile.embedding = EmbedSeeker(profile)

-----------------------------------------------------------------------------
(* The seeker pool: SeekerProfile rows and search_candidates_for_job.  A   *)
(* row is a profile's content (one of the sample profiles), its visibility *)
(* and search flags, and whether it has a stored embedding.  No code       *)
(* writes SeekerProfile.search_vector, so that column is NULL in every row. *)

MaxSeekers == 2

JuniorSeeker == Seeker({"python"}, {}, "entry", "", {"full-time"}, None, None)

PoolKinds == {"full", "junior", "empty"}

PoolSeeker(kind) ==
    IF kind = "full" THEN FullSeeker
    ELSE IF kind = "junior" THEN JuniorSeeker
    ELSE EmptySeeker

(* CosineDistance('embedding', job_embedding) of a profile, in tenths *)
PoolDistance(kind) == IF kind = "full" THEN 3 ELSE 5

Visibilities == {"public", "matching", "hidden"}

SeekerIds == DOMAIN seekersDb

PoolIdle == poolCall = NoCall

(* post_save of a SeekerProfile: embed_seeker_on_save stores an embedding  *)
(* when the profile is completed and has none; embed_seeker gives None for *)
(* a profile without parts.                                                *)
PostSaveSeeker(row) ==
    IF row.wizard_completed /\ ~row.embedded
    THEN [row EXCEPT !.embedded = SeekerHasParts(PoolSeeker(row.kind))]
    ELSE row

(* get_or_create_seeker_profile: a new row with the column defaults *)
CreateSeekerProfile(kind) ==
    /\ PoolIdle
    /\ Len(seekersDb) < MaxSeekers
    /\ seekersDb' = Append(seekersDb,
                           PostSaveSeeker([kind |-> kind, visibility |-> "public",
                                           is_actively_looking |-> TRUE,
                                           wizard_completed |-> FALSE, embedded |-> FALSE]))
    /\ UNCHANGED <<poolCall, notPool>>

(* The summary step of the wizard: wizard_completed = True and save() *)
CompleteSeekerWizard(id) ==
    /\ PoolIdle
    /\ id \in SeekerIds
    /\ seekersDb' = [seekersDb EXCEPT
                       ![id] = PostSaveSeeker([@ EXCEPT !.wizard_completed = TRUE])]
    /\ UNCHANGED <<poolCall, notPool>>

(* SeekerProfileAdmin: the "User" fieldset edits visibility and            *)
(* is_actively_looking, and the form saves the row.                        *)
AdminSaveSeeker(id, visibility, looking) ==
    /\ PoolIdle
    /\ id \in SeekerIds
    /\ seekersDb' = [seekersDb EXCEPT
                       ![id] = PostSaveSeeker([@ EXCEPT !.visibility = visibility,
                                                        !.is_actively_looking = looking])]
    /\ UNCHANGED <<poolCall, notPool>>

(* A filter that forgets the visibility. *)
LookingEmbeddedSeekers ==
    {id \in SeekerIds : seekersDb[id].is_actively_looking /\ seekersDb[id].embedded}

(* filter(visibility='public', is_actively_looking=True,                   *)
(*        embedding__isnull=False)                                         *)
SearchableSeekers ==
    {id \in SeekerIds : /\ seekersDb[id].visibility = "public"
                        /\ seekersDb[id].is_actively_looking
                        /\ seekersDb[id].embedded}

(* order_by('distance') over the seekers *)
RECURSIVE NearestSeekersFirst(_)
NearestSeekersFirst(ids) ==
    IF ids = {} THEN {<<>>}
    ELSE UNION {{<<x>> \o rest : rest \in NearestSeekersFirst(ids \ {x})} :
                  x \in {y \in ids : \A z \in ids :
                           PoolDistance(seekersDb[y].kind) <= PoolDistance(seekersDb[z].kind)}}

(* build_job_search_query(job) == '' *)
JobSearchQueryIsEmpty(j) == j.skills = {} /\ j.category = None

(* search_candidates_for_job(job, limit), given the order the query        *)
(* returned.  With search terms the rows carry fts_rank, the SearchRank of *)
(* a NULL search_vector, which is NULL: max() over two of them and the     *)
(* division of one of them raise TypeError.                                *)
SearchCandidatesForJob(j, limit, order) ==
    LET seekers == Take(order, limit * 3)
        row(id) ==
            LET s == PoolSeeker(seekersDb[id].kind)
                sem == Rat(10 - PoolDistance(seekersDb[id].kind), 10)
                fts == R(0)
                text_score == RAdd(RMul(sem, Rat(6, 10)), RMul(fts, Rat(4, 10)))
                structured == ComputeStructuredScore(s, j)
            IN  [seeker |-> id,
                 score |-> RAdd(RMul(text_score, Rat(6, 10)), RMul(structured.value, Rat(4, 10))),
                 semantic |-> sem, fts |-> fts, structured |-> structured.value]
        raises ==
            \/ ~JobSearchQueryIsEmpty(j) /\ seekers # <<>>
            \/ \E i \in 1..Len(seekers) :
                  ComputeStructuredScore(PoolSeeker(seekersDb[seekers[i]].kind), j).raised
    IN  IF raises THEN [raised |-> TRUE, value |-> <<>>]
        ELSE Returned(Take(SortByScore([i \in 1..Len(seekers) |-> row(seekers[i])]), limit))

SearchCandidatesCall(limit) ==
    /\ PoolIdle
    /\ \E order \in NearestSeekersFirst(SearchableSeekers) :
          LET out == SearchCandidatesForJob(job, limit, order)
          IN  poolCall' = [op |-> "search_candidates_for_job", limit |-> limit,
                           raised |-> out.raised, value |-> out.value]
    /\ UNCHANGED <<seekersDb, notPool>>

(* The caller takes the list it was returned and the request ends. *)
PoolRespond ==
    /\ ~PoolIdle
    /\ poolCall' = NoCall
    /\ UNCHANGED <<seekersDb, notPool>>

(* The jobs candidates are searched for: one without skills and category   *)
(* (no search terms), one with both.                                       *)
PoolJobs == {KindJob("intern", 1), KindJob("engineer", 1)}

InitPool ==
    /\ seeker = EmptySeeker
    /\ job \in PoolJobs
    /\ semantic = FallbackSemantic
    /\ hashSeed = [w \in Workers |-> 0]
    /\ results = [w \in Workers |-> NoResult]
    /\ skillsOut = NoSkillsOut
    /\ structuredOut = NoOutcome
    /\ IdleStore
    /\ IdleWizard
    /\ IdleRest

NextPool ==
    \/ \E kind \in PoolKinds : CreateSeekerProfile(kind)
    \/ \E id \in SeekerIds : CompleteSeekerWizard(id)
    \/ \E id \in SeekerIds, visibility \in Visibilities, looking \in BOOLEAN :
          AdminSaveSeeker(id, visibility, looking)
    \/ \E limit \in Limits : SearchCandidatesCall(limit)
    \/ PoolRespond

SpecPool == InitPool /\ [][NextPool]_vars

(* C11: whenever search_candidates_for_job(job, limit) returns, it returns *)
(* at most `limit` seekers, each a different row that is public, actively  *)
(* looking and has a stored embedding in the table the call read, whatever *)
(* visibility and search-flag changes came before.                         *)
C11_OnlySearchableSeekersReturned ==
    (poolCall # NoCall /\ ~poolCall.raised) =>
        /\ Len(poolCall.value) <= poolCall.limit
        /\ \A i \in 1..Len(poolCall.value) :
              LET id == poolCall.value[i].seeker
              IN  /\ id \in SeekerIds
                  /\ seekersDb[id].visibility = "public"
                  /\ seekersDb[id].is_actively_looking
                  /\ seekersDb[id].embedded
        /\ \A i, k \in 1..Len(poolCall.value) :
              poolCall.value[i].seeker = poolCall.value[k].seeker => i = k

(* A search returns a seeker while the pool also holds an embedded seeker  *)
(* whose visibility or search flag an admin changed.                       *)
C11_Witness ==
    /\ poolCall # NoCall
    /\ ~poolCall.raised
    /\ Len(poolCall.value) >= 1
    /\ \E id \in SeekerIds :
          /\ seekersDb[id].embedded
          /\ seekersDb[id].visibility # "public" \/ ~seekersDb[id].is_actively_looking

-----------------------------------------------------------------------------
(* The gig marketplace (gigs/views.py): one live gig, open to every        *)
(* country, owned by the organization "employer" is a member of;           *)
(* "other_employer" is a member of another organization.  An application   *)
(* is keyed by its seeker (unique_together gig, seeker).                   *)

MaxReviews == 1

OrgMembers == {"employer"}

(* SeekerRequiredMixin.dispatch lets the request through *)
SeekerRequired(user) == AccountType(user) = "seeker"

(* EmployerRequiredMixin.dispatch lets the request through: an employer    *)
(* account that belongs to some organization                               *)
EmployerRequired(user) == AccountType(user) = "employer"

(* A response that changed nothing. *)
Refused(op, user, app, code) ==
    /\ gigCall' = [op |-> op, user |-> user, app |-> app, code |-> code]
    /\ UNCHANGED applications

(* A form_valid that creates the rows without looking for existing ones. *)
ApplyAlwaysCreates(a) ==
    [a EXCEPT !.count = @ + 1, !.status = "submitted",
              !.trials = @ + 1, !.trial = "not_funded"]

(* GigApplyView.form_valid: get_or_create the application, set it          *)
(* SUBMITTED, get_or_create its trial.                                     *)
ApplyFormValid(a) ==
    [a EXCEPT !.count = IF @ = 0 THEN 1 ELSE @, !.status = "submitted",
              !.trials = IF @ = 0 THEN 1 ELSE @,
              !.trial = IF @ = "none" THEN "not_funded" ELSE @]

(* GigApplyView: dispatch (the gig is live and visible), the seeker check, *)
(* and form_valid.  An invalid form is rendered again.                     *)
GigApply(user, valid) ==
    /\ IF ~SeekerRequired(user) THEN Refused("apply", user, user, 302)
       ELSE IF ~valid THEN Refused("apply", user, user, 200)
       ELSE /\ applications' = [applications EXCEPT ![user] = ApplyFormValid(@)]
            /\ gigCall' = [op |-> "apply", user |-> user, app |-> user, code |-> 302]
    /\ UNCHANGED notGigs

(* A submit that skips the checks of form_valid. *)
SubmitTrialUnchecked(a) ==
    [a EXCEPT !.submissions = @ + 1, !.status = "trial_submitted"]

(* ApplicationDetailView.form_valid on the application row: the row after  *)
(* the request, or "raised".  self.trial.submission is the reverse side of *)
(* Submission.trial (OneToOneField): reading it when the trial has no      *)
(* submission raises RelatedObjectDoesNotExist.                            *)
SubmitTrial(a) ==
    IF a.trial = "none" \/ a.trial # "funded" THEN a
    ELSE IF a.submissions = 0 THEN [a EXCEPT !.status = "raised"]
    ELSE a

(* ApplicationDetailView: dispatch finds the application of request.user   *)
(* or answers 404; then the seeker check; then form_valid.                 *)
GigSubmit(user, app) ==
    /\ IF user # app \/ applications[app].count = 0
       THEN Refused("submit", user, app, 404)
       ELSE IF ~SeekerRequired(user) THEN Refused("submit", user, app, 302)
       ELSE LET after == SubmitTrial(applications[app])
            IN  IF after.status = "raised" THEN Refused("submit", user, app, 500)
                ELSE /\ applications' = [applications EXCEPT ![app] = after]
                     /\ gigCall' = [op |-> "submit", user |-> user, app |-> app, code |-> 302]
    /\ UNCHANGED notGigs

(* A lookup that forgets the membership. *)
ReviewableByAnyone(user, app) == applications[app].count > 0

(* get_object_or_404(GigApplication, pk=..., gig__organization__members=   *)
(* request.user) finds the application                                     *)
ReviewableBy(user, app) ==
    /\ applications[app].count > 0
    /\ user \in OrgMembers

(* _handle_fund: create the trial when missing; with a payment reference,  *)
(* mark it FUNDED and the application TRIAL_FUNDED.                        *)
HandleFund(a, valid) ==
    LET withTrial == [a EXCEPT !.trials = IF a.trial = "none" THEN @ + 1 ELSE @,
                               !.trial = IF @ = "none" THEN "not_funded" ELSE @]
    IN  IF valid THEN [withTrial EXCEPT !.trial = "funded", !.status = "trial_funded"]
        ELSE withTrial

(* _handle_review: a valid form creates a Review; PASS accepts the         *)
(* application and releases a funded trial, FAIL rejects it.               *)
HandleReview(a, valid, decision) ==
    IF ~valid THEN a
    ELSE IF decision = "pass"
    THEN [a EXCEPT !.reviews = @ + 1, !.status = "accepted",
                   !.trial = IF @ = "funded" THEN "released" ELSE @]
    ELSE [a EXCEPT !.reviews = @ + 1, !.status = "rejected"]

(* EmployerApplicationReviewView.post with action=fund *)
GigFund(user, app, valid) ==
    /\ IF ~ReviewableBy(user, app) THEN Refused("fund", user, app, 404)
       ELSE IF ~EmployerRequired(user) THEN Refused("fund", user, app, 302)
       ELSE /\ applications' = [applications EXCEPT ![app] = HandleFund(@, valid)]
            /\ gigCall' = [op |-> "fund", user |-> user, app |-> app, code |-> 302]
    /\ UNCHANGED notGigs

(* EmployerApplicationReviewView.post with action=review *)
GigReview(user, app, valid, decision) ==
    /\ (ReviewableBy(user, app) /\ EmployerRequired(user) /\ valid) =>
          applications[app].reviews < MaxReviews
    /\ IF ~ReviewableBy(user, app) THEN Refused("review", user, app, 404)
       ELSE IF ~EmployerRequired(user) THEN Refused("review", user, app, 302)
       ELSE /\ applications' = [applications EXCEPT ![app] = HandleReview(@, valid, decision)]
            /\ gigCall' = [op |-> "review", user |-> user, app |-> app, code |-> 302]
    /\ UNCHANGED notGigs

(* TrialAdmin: staff edit the funding status of an existing trial. *)
AdminSaveTrial(app, funding_status) ==
    /\ applications[app].trial # "none"
    /\ applications' = [applications EXCEPT ![app].trial = funding_status]
    /\ gigCall' = [op |-> "admin", user |-> "staff", app |-> app, code |-> 302]
    /\ UNCHANGED notGigs

FundingStatuses == {"not_funded", "funded", "released", "refunded"}

InitGigs ==
    /\ seeker = EmptySeeker
    /\ job = KindJob(FormKind, 1)
    /\ semantic = FallbackSemantic
    /\ hashSeed = [w \in Workers |-> 0]
    /\ results = [w \in Workers |-> NoResult]
    /\ skillsOut = NoSkillsOut
    /\ structuredOut = NoOutcome
    /\ IdleStore
    /\ IdleWizard
    /\ IdleRest

NextGigs ==
    \/ \E user \in GigUsers, valid \in BOOLEAN : GigApply(user, valid)
    \/ \E user \in GigUsers, app \in GigUsers : GigSubmit(user, app)
    \/ \E user \in GigUsers, app \in GigUsers, valid \in BOOLEAN : GigFund(user, app, valid)
    \/ \E user \in GigUsers, app \in GigUsers, valid \in BOOLEAN, decision \in {"pass", "fail"} :
          GigReview(user, app, valid, decision)
    \/ \E app \in GigUsers, funding_status \in FundingStatuses :
          AdminSaveTrial(app, funding_status)

SpecGigs == InitGigs /\ [][NextGigs]_vars

(* C12: a Submission is created only by a submit that finds the            *)
(* application's trial FUNDED; a submit that finds the trial missing,      *)
(* NOT_FUNDED, RELEASED or REFUNDED creates no Submission and leaves the   *)
(* application as it was; and no trial ever has more than one Submission.  *)
C12_SubmissionOnlyWhenFunded ==
    /\ [](\A a \in GigUsers : applications[a].submissions <= 1)
    /\ [][/\ \A a \in GigUsers :
                applications'[a].submissions # applications[a].submissions =>
                    /\ gigCall'.op = "submit"
                    /\ gigCall'.app = a
                    /\ applications[a].trial = "funded"
          /\ (gigCall'.op = "submit" /\ applications[gigCall'.app].trial # "funded") =>
                applications' = applications]_vars

(* The seeker's submit was answered with the redirect while the trial of   *)
(* the application was not FUNDED, and no Submission exists.               *)
C12_Witness ==
    /\ gigCall.op = "submit"
    /\ gigCall.code = 302
    /\ applications[gigCall.app].count = 1
    /\ applications[gigCall.app].trial \in {"not_funded", "released", "refunded"}
    /\ applications[gigCall.app].submissions = 0

C14_OnlySeekersApplyOnce ==
    /\ \A u \in GigUsers :
          /\ AccountType(u) # "seeker" => applications[u].count = 0
          /\ applications[u].count <= 1
          /\ applications[u].trials <= 1
    /\ (gigCall.op = "apply" /\ gigCall.code = 302 /\ AccountType(gigCall.user) = "seeker") =>
          applications[gigCall.user].count = 1

(* The employer's apply request was turned away while a seeker, whose      *)
(* application has already moved on, holds one application and one trial.  *)
C14_Witness ==
    /\ gigCall.op = "apply"
    /\ gigCall.user = "employer"
    /\ applications["employer"].count = 0
    /\ applications["seeker"].count = 1
    /\ applications["seeker"].trials = 1
    /\ applications["seeker"].trial = "funded"

-----------------------------------------------------------------------------
(* Onboarding (jobs/services/onboarding_service.py). *)

MaxOrgs == 2

(* The URL name of the account-type step, of the employer step, and the    *)
(* None of get_redirect_for_state as the empty name.                       *)
OnboardingComplete == ""

(* A check that sends every employer to the employer step. *)
RedirectEveryEmployer(account) ==
    IF account.account_type = "none" THEN "jobs:onboarding_select_type"
    ELSE IF account.account_type = "employer" THEN "jobs:onboarding_employer"
    ELSE OnboardingComplete

(* OnboardingService.get_redirect_for_state(user) *)
GetRedirectForState(account) ==
    IF account.account_type = "none" THEN "jobs:onboarding_select_type"
    ELSE IF account.account_type = "employer" /\ account.organizations = 0
    THEN "jobs:onboarding_employer"
    ELSE OnboardingComplete

(* OnboardingService.set_account_type(user, account_type): update_or_create *)
SetAccountType(user, account_type) ==
    /\ accounts' = [accounts EXCEPT ![user].account_type = account_type]
    /\ UNCHANGED <<onboardOut, notOnboard>>

(* OnboardingService.create_organization(user, form): a new organization   *)
(* with the user as its member                                             *)
CreateOrganization(user) ==
    /\ accounts[user].organizations < MaxOrgs
    /\ accounts' = [accounts EXCEPT ![user].organizations = @ + 1]
    /\ UNCHANGED <<onboardOut, notOnboard>>

(* OrganizationAdmin: staff take the user off an organization's members *)
AdminRemoveMember(user) ==
    /\ accounts[user].organizations > 0
    /\ accounts' = [accounts EXCEPT ![user].organizations = @ - 1]
    /\ UNCHANGED <<onboardOut, notOnboard>>

(* StartOnboardingView / the dashboard ask where to send the user *)
GetRedirectCall(user) ==
    /\ onboardOut' = [user |-> user, called |-> TRUE,
                      target |-> GetRedirectForState(accounts[user])]
    /\ UNCHANGED <<accounts, notOnboard>>

InitOnboard ==
    /\ seeker = EmptySeeker
    /\ job = KindJob(FormKind, 1)
    /\ semantic = FallbackSemantic
    /\ hashSeed = [w \in Workers |-> 0]
    /\ results = [w \in Workers |-> NoResult]
    /\ skillsOut = NoSkillsOut
    /\ structuredOut = NoOutcome
    /\ IdleStore
    /\ IdleWizard
    /\ IdleRest

NextOnboard ==
    \/ \E user \in OnboardUsers, account_type \in {"seeker", "employer"} :
          SetAccountType(user, account_type)
    \/ \E user \in OnboardUsers : CreateOrganization(user)
    \/ \E user \in OnboardUsers : AdminRemoveMember(user)
    \/ \E user \in OnboardUsers : GetRedirectCall(user)

SpecOnboard == InitOnboard /\ [][NextOnboard]_vars

(* C15: get_redirect_for_state answers the account-type step for a user    *)
(* without a profile, the employer step for an employer in no              *)
(* organization, and None for every seeker and for every employer in at    *)
(* least one organization.  The answer is read in the step that computes   *)
(* it, so it is compared with the accounts the call saw.                   *)
C15_RedirectForState ==
    [][\A u \in OnboardUsers :
          (onboardOut'.called /\ onboardOut'.user = u /\ accounts' = accounts) =>
             LET a == accounts[u]
             IN  onboardOut'.target =
                   CASE a.account_type = "none" -> "jobs:onboarding_select_type"
                     [] a.account_type = "employer" /\ a.organizations = 0 ->
                            "jobs:onboarding_employer"
                     [] a.account_type = "seeker" -> OnboardingComplete
                     [] a.account_type = "employer" /\ a.organizations >= 1 ->
                            OnboardingComplete]_vars

(* An employer who joined an organization was told onboarding is complete. *)
C15_Witness ==
    /\ onboardOut.called
    /\ onboardOut.target = OnboardingComplete
    /\ accounts[onboardOut.user].account_type = "employer"
    /\ accounts[onboardOut.user].organizations = 1

-----------------------------------------------------------------------------
(* The legacy scorer, jobs/services/matching_service.py.  Its keyword      *)
(* tables are the ones of the unified scorer (LEVEL_KEYWORDS,              *)
(* WORK_STYLE_KEYWORDS, EXPERIENCE_COMPATIBILITY are equal in the two      *)
(* files); what follows are _extract_keywords and                          *)
(* _extract_skills_from_text evaluated on the sample texts, and the labels *)
(* of the sample slugs.                                                    *)

LegacyKeywordsIn ==
       "Senior Software Engineer" :> {"engineer", "senior", "software"}
    @@ "Program Intern" :> {"intern", "program"}
    @@ "Data Analyst" :> {"analyst", "data"}
    @@ "" :> {}
    @@ "Build and design backend software for our platform using Python and SQL." :> {"backend", "build", "design", "platform", "python", "software", "sql", "using"}
    @@ "You will shape product and content operations, run qualitative and financial reviews, advise on policy engineering, and own management of research writing, strategy and analysis of data." :> {"advise", "analysis", "content", "data", "engineering", "financial", "management", "operations", "policy", "product", "qualitative", "research", "reviews", "run", "shape", "strategy", "writing"}
    @@ "I build software for climate organisations." :> {"build", "climate", "organisations", "software"}
    @@ "Education" :> {"education"}
    @@ "Healthcare" :> {"healthcare"}

LegacySkillsIn ==
       "Senior Software Engineer" :> {"r"}
    @@ "Program Intern" :> {"r"}
    @@ "Data Analyst" :> {}
    @@ "" :> {}
    @@ "Build and design backend software for our platform using Python and SQL." :> {"backend", "python", "r", "sql"}
    @@ "You will shape product and content operations, run qualitative and financial reviews, advise on policy engineering, and own management of research writing, strategy and analysis of data." :> {"r", "research", "writing"}

LegacyLabelKeywords ==
       "python" :> {"python"}
    @@ "aws" :> {"aws"}
    @@ "sql" :> {"sql"}
    @@ "fundraising" :> {"fundraising"}
    @@ "data-engineering" :> {"data", "engineering"}
    @@ "qualitative-research" :> {"qualitative", "research"}
    @@ "policy-writing" :> {"policy", "writing"}
    @@ "financial-analysis" :> {"analysis", "financial"}
    @@ "content-strategy" :> {"content", "strategy"}
    @@ "product-management" :> {"management", "product"}
    @@ "operations-management" :> {"management", "operations"}

LegacyLabelWords ==
       "python" :> {"python"}
    @@ "aws" :> {"aws"}
    @@ "sql" :> {"sql"}
    @@ "fundraising" :> {"fundraising"}
    @@ "data-engineering" :> {"data", "engineering"}
    @@ "qualitative-research" :> {"qualitative", "research"}
    @@ "policy-writing" :> {"policy", "writing"}
    @@ "financial-analysis" :> {"analysis", "financial"}
    @@ "content-strategy" :> {"content", "strategy"}
    @@ "product-management" :> {"management", "product"}
    @@ "operations-management" :> {"management", "operations"}

IMPACT_KEYWORDS ==
    {"advocacy", "ai", "alignment", "altruism", "analysis", "animal",
     "artificial", "carbon", "charity", "climate", "community", "data",
     "development", "disease", "donation", "economic", "education",
     "effective", "energy", "environment", "equality", "equity",
     "evidence", "giving", "global", "government", "health", "healthcare",
     "humanitarian", "impact", "intelligence", "justice", "learning",
     "machine", "medical", "mission", "ngo", "nonprofit", "philanthropy",
     "policy", "poverty", "protection", "public", "purpose", "renewable",
     "research", "rights", "safety", "schools", "science", "social",
     "students", "sustainability", "teaching", "welfare"}

LegacySkillLabels ==
       "python" :> "Python"
    @@ "backend" :> "Backend Development"
    @@ "r" :> "R"
    @@ "sql" :> "SQL"
    @@ "research" :> "Research"
    @@ "writing" :> "Writing"
    @@ "aws" :> "AWS"
    @@ "fundraising" :> "Fundraising"

(* The names of the two Category rows. *)
CategoryName == <<"Education", "Healthcare">>

(* _extract_keywords of texts joined by spaces: the keywords of the parts. *)
LegacyJobKeywords(j) ==
    LegacyKeywordsIn[j.title] \cup LegacyKeywordsIn[j.description]
        \cup LegacyKeywordsIn[j.requirements]

LegacySeekerKeywords(s) ==
    LegacyKeywordsIn[s.impact_statement]
        \cup UNION {LegacyLabelKeywords[slug] : slug \in s.skills}
        \cup UNION {LegacyKeywordsIn[CategoryName[a]] : a \in s.impact_areas}

(* _extract_skills_from_text(f"{title} {description} {requirements}") *)
ExtractSkillsFromText(j) ==
    LegacySkillsIn[j.title] \cup LegacySkillsIn[j.description]
        \cup LegacySkillsIn[j.requirements]

(* int(x) and round(x) of a non-negative float: truncation, and the        *)
(* nearest integer with a tie going to the even one.                       *)
IntOf(x) == x[1] \div x[2]

RoundOf(x) ==
    LET q    == x[1] \div x[2]
        rem2 == 2 * (x[1] - q * x[2])
    IN  IF rem2 > x[2] \/ (rem2 = x[2] /\ q % 2 = 1) THEN q + 1 ELSE q

CalculateTextSimilarity(seeker_keywords, job_keywords) ==
    LET overlap == seeker_keywords \cap job_keywords
        impact_overlap == overlap \cap IMPACT_KEYWORDS
        regular_overlap == overlap \ IMPACT_KEYWORDS
        weighted_overlap == Cardinality(regular_overlap) + Cardinality(impact_overlap) * 2
        similarity == Rat(weighted_overlap, Cardinality(seeker_keywords) + 1)
        job_coverage == Rat(Cardinality(overlap), Cardinality(job_keywords) + 1)
        combined == RAdd(RMul(similarity, Rat(6, 10)), RMul(job_coverage, Rat(4, 10)))
    IN  IF seeker_keywords = {} \/ job_keywords = {} THEN R(20)
        ELSE IF overlap = {} THEN R(20)
        ELSE RAdd(R(20), RMin(R(80), RMul(combined, R(400))))

LegacyScoreTextRelevance(seeker_keywords, job_keywords) ==
    LET score == CalculateTextSimilarity(seeker_keywords, job_keywords)
    IN  [score |-> IntOf(score),
         reasons |->
            IF RLeq(R(70), score)
            THEN <<Reason("Strong keyword match with your profile", <<>>)>>
            ELSE IF RLeq(R(50), score)
            THEN <<Reason("Good alignment with your interests", <<>>)>>
            ELSE IF RLeq(R(30), score)
            THEN <<Reason("Some overlap with your background", <<>>)>>
            ELSE <<>>]

LegacyScoreImpactArea(s, j) ==
    IF ~Truthy(j.category) THEN [score |-> 40, reasons |-> <<>>]
    ELSE IF s.impact_areas = {} THEN [score |-> 50, reasons |-> <<>>]
    ELSE IF j.category \in s.impact_areas
         THEN [score |-> 100,
               reasons |-> <<Reason("{category} matches your focus", <<j.category>>)>>]
    ELSE [score |-> 35, reasons |-> <<>>]

(* if score < 50 and keyword_matches >= 2:                                 *)
(*     score = max(score, 50 + keyword_matches * 5)                        *)
KeywordBoost(score, keyword_matches) ==
    IF score < 50 /\ keyword_matches >= 2
    THEN IF score >= 50 + keyword_matches * 5 THEN score
         ELSE 50 + keyword_matches * 5
    ELSE score

(* _score_skills of the legacy scorer: the score, the reasons, and the     *)
(* job's skills the seeker lacks; the gaps are five of them, whichever     *)
(* come first in the iteration order of the set.                           *)
LegacyScoreSkills(s, j, job_keywords) ==
    LET seeker_skills == s.skills
        seeker_skill_words == UNION {LegacyLabelWords[slug] : slug \in seeker_skills}
        job_skills == j.skills \cup ExtractSkillsFromText(j)
        keyword_matches == Cardinality(seeker_skill_words \cap job_keywords)
        overlap == seeker_skills \cap job_skills
        missing == job_skills \ seeker_skills
        base == (Cardinality(overlap) * 100) \div Cardinality(job_skills)
        boosted == KeywordBoost(base, keyword_matches)
        floored == IF boosted < 35 THEN 35 ELSE boosted
        score == IF Cardinality(overlap) >= 5
                 THEN (IF floored + 10 > 100 THEN 100 ELSE floored + 10)
                 ELSE floored
    IN  IF seeker_skills = {} THEN [score |-> 40, reasons |-> <<>>, missing |-> {}]
        ELSE IF job_skills = {}
        THEN IF keyword_matches >= 5
             THEN [score |-> 85, reasons |-> <<Reason("Skills keywords found", <<>>)>>,
                   missing |-> {}]
             ELSE IF keyword_matches >= 3
             THEN [score |-> 70, reasons |-> <<Reason("Some skills mentioned", <<>>)>>,
                   missing |-> {}]
             ELSE IF keyword_matches >= 1
             THEN [score |-> 55, reasons |-> <<>>, missing |-> {}]
             ELSE [score |-> 40, reasons |-> <<>>, missing |-> {}]
        ELSE [score |-> score,
              reasons |->
                 IF overlap # {}
                 THEN <<Reason("{n} of {m} skills match",
                               <<Cardinality(overlap), Cardinality(job_skills)>>)>>
                 ELSE IF keyword_matches >= 2
                 THEN <<Reason("Related skills found", <<>>)>>
                 ELSE <<>>,
              missing |-> missing]

LegacyScoreExperience(s, j) ==
    LET job_level == InferJobLevel(j)
        compatible_levels ==
            IF s.experience_level \in DOMAIN EXPERIENCE_COMPATIBILITY
            THEN EXPERIENCE_COMPATIBILITY[s.experience_level] ELSE {}
    IN  IF s.experience_level = "" THEN [score |-> 50, reasons |-> <<>>]
        ELSE IF job_level # "" /\ job_level \in compatible_levels
             THEN [score |-> 100, reasons |-> <<Reason("Experience level matches", <<>>)>>]
        ELSE IF job_level # "" THEN [score |-> 30, reasons |-> <<>>]
        ELSE [score |-> 60, reasons |-> <<>>]

LegacyScoreWorkStyle(s, job_keywords) ==
    LET style_keywords ==
            IF s.work_style \in DOMAIN WORK_STYLE_KEYWORDS
            THEN WORK_STYLE_KEYWORDS[s.work_style] ELSE <<>>
        matches == Cardinality({i \in 1..Len(style_keywords) :
                                   style_keywords[i] \in job_keywords})
    IN  IF s.work_style = "" THEN [score |-> 50, reasons |-> <<>>]
        ELSE IF style_keywords = <<>> THEN [score |-> 50, reasons |-> <<>>]
        ELSE IF matches >= 5
             THEN [score |-> 100, reasons |-> <<Reason("Great fit for your work style", <<>>)>>]
        ELSE IF matches >= 3
             THEN [score |-> 80, reasons |-> <<Reason("Aligns with your work style", <<>>)>>]
        ELSE IF matches >= 1 THEN [score |-> 60, reasons |-> <<>>]
        ELSE [score |-> 30, reasons |-> <<>>]

(* calculate_match(seeker, job), but for the gaps: the weighted total with *)
(* its boost, the breakdown, the first five reasons, the missing skills.   *)
CalculateMatch(s, j) ==
    LET seeker_keywords == LegacySeekerKeywords(s)
        job_keywords == LegacyJobKeywords(j)
        relevance == LegacyScoreTextRelevance(seeker_keywords, job_keywords)
        impact == LegacyScoreImpactArea(s, j)
        skills == LegacyScoreSkills(s, j, job_keywords)
        experience == LegacyScoreExperience(s, j)
        work_style == LegacyScoreWorkStyle(s, job_keywords)
        weighted ==
            RAdd(Rat(relevance.score * 35, 100),
              RAdd(Rat(impact.score * 25, 100),
                RAdd(Rat(skills.score * 20, 100),
                  RAdd(Rat(experience.score * 10, 100),
                       Rat(work_style.score * 10, 100)))))
        total == IF relevance.score >= 70 /\ impact.score >= 80
                 THEN RMin(R(100), RMul(weighted, Rat(11, 10)))
                 ELSE weighted
    IN  [called |-> TRUE,
         total |-> RoundOf(total),
         breakdown |-> [relevance |-> relevance.score, impact |-> impact.score,
                        skills |-> skills.score, experience |-> experience.score,
                        work_style |-> work_style.score],
         reasons |-> Take(relevance.reasons \o impact.reasons \o skills.reasons
                            \o experience.reasons \o work_style.reasons, 5),
         missing |-> skills.missing]

(* get_or_calculate_match answering from the JobMatch row when there is    *)
(* one: not what the code does.                                            *)
GetOrCalculateMatchCached(s, j, rows) ==
    IF \E m \in rows : m.seeker = 1 /\ m.job = j.id
    THEN LET m == CHOOSE m \in rows : m.seeker = 1 /\ m.job = j.id
         IN  [called |-> TRUE, total |-> m.score, breakdown |-> m.breakdown,
              reasons |-> m.reasons, missing |-> {}]
    ELSE CalculateMatch(s, j)

(* get_or_calculate_match(seeker, job): always calculate_match, whatever   *)
(* the rows of JobMatch.                                                   *)
GetOrCalculateMatch(s, j, rows) == CalculateMatch(s, j)

(* list(missing)[:5]: five of the missing skills, or all of them when they *)
(* are fewer.                                                              *)
FirstFiveOf(missing) ==
    {g \in SUBSET missing :
        Cardinality(g) = (IF Cardinality(missing) < 5 THEN Cardinality(missing) ELSE 5)}

(* A caller computes the match of the seeker and the job. *)
CalculateMatchCall ==
    /\ \E first \in FirstFiveOf(CalculateMatch(seeker, job).missing) :
          legacyOut' =
             [called |-> TRUE,
              total |-> CalculateMatch(seeker, job).total,
              breakdown |-> CalculateMatch(seeker, job).breakdown,
              reasons |-> CalculateMatch(seeker, job).reasons,
              gaps |-> {LegacySkillLabels[slug] : slug \in first}]
    /\ UNCHANGED <<scoreVars, storeVars, wizardVars, poolVars, gigVars, onboardVars,
                   matchVars, subScoreVars, assistantVars>>

(* The seekers and jobs of the legacy specification.  The third seeker     *)
(* has seven two-word skills; the third description uses their words       *)
(* without naming one of the skills.                                       *)
WordySkills ==
    {"data-engineering", "qualitative-research", "policy-writing", "financial-analysis",
     "content-strategy", "product-management", "operations-management"}

WordyDescription ==
    "You will shape product and content operations, run qualitative and financial reviews, advise on policy engineering, and own management of research writing, strategy and analysis of data."

LegacySeekers ==
    {[Seeker(sk, ar, lv, ws, {}, None, None) EXCEPT !.impact_statement = st] :
        sk \in {{}, TechSkills, WordySkills},
        ar \in {{}, {1}},
        lv \in {"", "senior", "early"},
        ws \in {"", "builder", "researcher"},
        st \in {"", "I build software for climate organisations."}}

LegacyJobs ==
    {Job(1, title, description, "", sk, cat, "full-time", None, None, NoOrgSignals, TRUE, 20) :
        title \in {"Senior Software Engineer", "Program Intern", "Data Analyst"},
        description \in {"",
                         "Build and design backend software for our platform using Python and SQL.",
                         WordyDescription},
        sk \in {{}, {"python"}},
        cat \in {None, 1, 2}}

InitLegacy ==
    /\ seeker \in LegacySeekers
    /\ job \in LegacyJobs
    /\ semantic = FallbackSemantic
    /\ hashSeed = [w \in Workers |-> 0]
    /\ results = [w \in Workers |-> NoResult]
    /\ skillsOut = NoSkillsOut
    /\ structuredOut = NoOutcome
    /\ IdleStore
    /\ IdleWizard
    /\ IdleRest

NextLegacy == CalculateMatchCall

SpecLegacy == InitLegacy /\ [][NextLegacy]_vars

InPercent(x) == x \in 0..100

(* C16: calculate_match returns a total in 0..100 and five breakdown       *)
(* scores (relevance, impact, skills, experience, work_style) each in      *)
(* 0..100, for every seeker and job, however many of the seeker's skill    *)
(* words occur in the job text.                                            *)
C16_LegacyScoresInRange ==
    legacyOut.called =>
        /\ InPercent(legacyOut.total)
        /\ InPercent(legacyOut.breakdown.relevance)
        /\ InPercent(legacyOut.breakdown.impact)
        /\ InPercent(legacyOut.breakdown.skills)
        /\ InPercent(legacyOut.breakdown.experience)
        /\ InPercent(legacyOut.breakdown.work_style)

-----------------------------------------------------------------------------
(* get_matches step by step, for two worker processes at once.  Worker 1   *)
(* serves the seeker with a full profile, worker 2 the seeker with an      *)
(* empty one; the Job table is the stored state both read.  Meanwhile the  *)
(* legacy scorer's cache_match writes JobMatch rows.                       *)

MatchSeekerOf(w) == IF w = 1 THEN FullSeeker ELSE EmptySeeker

(* The Job tables the computations run on: two saved postings, the first  *)
(* active, the second active or not.                                       *)
StoredJobTables ==
    {<<PostSaveJob(NewRow(KindJob(k1, 1), k1, "manual", TRUE, 0)),
       PostSaveJob(NewRow(KindJob(k2, 2), k2, "manual", a2, 1))>> :
        k1 \in {"intern", "engineer"}, k2 \in {"intern", "engineer"}, a2 \in BOOLEAN}

(* embed_seeker(seeker): get_model() constructs the process's _model when  *)
(* it is None; a seeker without parts is answered None without it.         *)
EmbedSeekerStep(w, limit) ==
    /\ matching[w].pc = "idle"
    /\ matching' = [matching EXCEPT ![w] = [NotMatching EXCEPT !.pc = "embedded",
                                                             !.limit = limit]]
    /\ modelLoaded' = [modelLoaded EXCEPT ![w] = @ \/ SeekerHasParts(MatchSeekerOf(w))]
    /\ UNCHANGED <<jobMatches, scoreVars, storeVars, wizardVars, poolVars, gigVars,
                   onboardVars, legacyVars, subScoreVars, assistantVars>>

(* _retrieve_candidates: the query; get_matches returns [] when it is empty. *)
RetrieveStep(w) ==
    /\ matching[w].pc = "embedded"
    /\ \E order \in QueryOrders(MatchSeekerOf(w)) :
          LET candidates == RetrieveCandidates(MatchSeekerOf(w), CANDIDATE_LIMIT, order)
          IN  matching' = [matching EXCEPT
                             ![w].candidates = candidates,
                             ![w].pc = IF candidates = <<>> THEN "done" ELSE "scoring"]
    /\ UNCHANGED <<modelLoaded, jobMatches, scoreVars, storeVars, wizardVars, poolVars,
                   gigVars, onboardVars, legacyVars, subScoreVars, assistantVars>>

(* One turn of the loop of get_matches, keeping JobMatch up to date as     *)
(* cache_match does: not what the code does.                               *)
ScoreStepCaching(w) ==
    /\ matching[w].pc = "scoring"
    /\ Len(matching[w].scored) < Len(matching[w].candidates)
    /\ LET c == matching[w].candidates[Len(matching[w].scored) + 1]
           r == ScoreCandidate(MatchSeekerOf(w), jobsDb[c.job], c.semantic, hashSeed[w])
       IN  /\ matching' = [matching EXCEPT ![w].scored = Append(@, r)]
           /\ jobMatches' = {m \in jobMatches : m.seeker # w \/ m.job # c.job}
                              \cup {[seeker |-> w, job |-> c.job, score |-> 0,
                                     breakdown |-> <<>>, reasons |-> <<>>, gaps |-> {}]}
    /\ UNCHANGED <<modelLoaded, scoreVars, storeVars, wizardVars, poolVars,
                   gigVars, onboardVars, legacyVars, subScoreVars, assistantVars>>

(* One turn of the loop of get_matches: _score_candidate on the next       *)
(* candidate, the result appended.                                         *)
ScoreStep(w) ==
    /\ matching[w].pc = "scoring"
    /\ Len(matching[w].scored) < Len(matching[w].candidates)
    /\ LET c == matching[w].candidates[Len(matching[w].scored) + 1]
       IN  matching' = [matching EXCEPT ![w].scored =
                          Append(@, ScoreCandidate(MatchSeekerOf(w), jobsDb[c.job],
                                                   c.semantic, hashSeed[w]))]
    /\ UNCHANGED <<modelLoaded, jobMatches, scoreVars, storeVars, wizardVars, poolVars,
                   gigVars, onboardVars, legacyVars, subScoreVars, assistantVars>>

(* results.sort(...); return results[:limit] *)
ReturnStep(w) ==
    /\ matching[w].pc = "scoring"
    /\ Len(matching[w].scored) = Len(matching[w].candidates)
    /\ matching' = [matching EXCEPT
                      ![w].value = Take(SortByScore(matching[w].scored), matching[w].limit),
                      ![w].pc = "done"]
    /\ UNCHANGED <<modelLoaded, jobMatches, scoreVars, storeVars, wizardVars, poolVars,
                   gigVars, onboardVars, legacyVars, subScoreVars, assistantVars>>

(* The caller has the list; the worker takes the next request. *)
DeliverMatches(w) ==
    /\ matching[w].pc = "done"
    /\ matching' = [matching EXCEPT ![w] = NotMatching]
    /\ UNCHANGED <<modelLoaded, jobMatches, scoreVars, storeVars, wizardVars, poolVars,
                   gigVars, onboardVars, legacyVars, subScoreVars, assistantVars>>

(* MatchingService.cache_match(seeker, job): calculate_match, then         *)
(* JobMatch.objects.update_or_create on (seeker, job).                     *)
CacheMatch(w, id) ==
    /\ LET match_data == CalculateMatch(MatchSeekerOf(w), jobsDb[id])
       IN  \E first \in FirstFiveOf(match_data.missing) :
              jobMatches' = {m \in jobMatches : m.seeker # w \/ m.job # id}
                              \cup {[seeker |-> w, job |-> id, score |-> match_data.total,
                                     breakdown |-> match_data.breakdown,
                                     reasons |-> match_data.reasons,
                                     gaps |-> {LegacySkillLabels[slug] : slug \in first}]}
    /\ UNCHANGED <<matching, modelLoaded, scoreVars, storeVars, wizardVars, poolVars,
                   gigVars, onboardVars, legacyVars, subScoreVars, assistantVars>>

InitMatching ==
    /\ seeker = FullSeeker
    /\ job = KindJob(FormKind, 1)
    /\ semantic = FallbackSemantic
    /\ \E seed \in Seeds : hashSeed = [w \in Workers |-> IF w = 1 THEN seed ELSE 0]
    /\ results = [w \in Workers |-> NoResult]
    /\ skillsOut = NoSkillsOut
    /\ structuredOut = NoOutcome
    /\ jobsDb \in StoredJobTables
    /\ now = 1
    /\ lastCall = NoCall
    /\ IdleWizard
    /\ IdlePool /\ IdleGigs /\ IdleOnboard /\ IdleLegacy /\ IdleMatching /\ IdleSubScore
    /\ IdleAssistant

NextMatching ==
    \/ \E w \in Workers, limit \in Limits : EmbedSeekerStep(w, limit)
    \/ \E w \in Workers : RetrieveStep(w)
    \/ \E w \in Workers : ScoreStep(w)
    \/ \E w \in Workers : ReturnStep(w)
    \/ \E w \in Workers : DeliverMatches(w)
    \/ \E w \in Workers, id \in JobIds : CacheMatch(w, id)

SpecMatching == InitMatching /\ [][NextMatching]_vars

(* get_matches computed alone on the stored state, for any order the query *)
(* may return.                                                             *)
MatchesComputedAlone(w) ==
    {GetMatches(MatchSeekerOf(w), matching[w].limit,
                RetrieveCandidates(MatchSeekerOf(w), CANDIDATE_LIMIT, order), hashSeed[w]) :
        order \in QueryOrders(MatchSeekerOf(w))}

(* C17: scoring and ranking are read-only.  No step of get_matches and of  *)
(* _score_candidate changes a seeker, a job, a stored embedding or a       *)
(* JobMatch row, and the list a worker returns, whatever the other worker  *)
(* and cache_match did in between, is one that get_matches computed alone  *)
(* on the same stored state returns.                                       *)
C17_ScoringIsReadOnly ==
    /\ [](\A w \in Workers :
            matching[w].pc = "done" => matching[w].value \in MatchesComputedAlone(w))
    /\ [][matching' # matching =>
            /\ jobsDb' = jobsDb
            /\ jobMatches' = jobMatches
            /\ seeker' = seeker
            /\ profile' = profile
            /\ seekersDb' = seekersDb]_vars

(* Worker 1 has returned a ranked list of two jobs while worker 2 is in    *)
(* its loop and JobMatch rows were written.                                *)
C17_Witness ==
    /\ matching[1].pc = "done"
    /\ Len(matching[1].value) = 2
    /\ matching[2].pc = "scoring"
    /\ Len(matching[2].scored) = 1
    /\ jobMatches # {}
    /\ modelLoaded[1]

-----------------------------------------------------------------------------
(* The profile sub-scorers called on their own.                            *)

(* _score_experience(seeker, job, reasons) *)
ScoreExperienceCall ==
    /\ subScoreOut' = [op |-> "_score_experience",
                       score |-> ScoreExperience(seeker, job).score,
                       reasons |-> ScoreExperience(seeker, job).reasons]
    /\ UNCHANGED <<scoreVars, storeVars, wizardVars, poolVars, gigVars, onboardVars,
                   legacyVars, matchVars, assistantVars>>

(* _score_preferences(seeker, job, reasons) *)
ScorePreferencesCall ==
    /\ subScoreOut' = [op |-> "_score_preferences",
                       score |-> ScorePreferences(seeker, job).score,
                       reasons |-> ScorePreferences(seeker, job).reasons]
    /\ UNCHANGED <<scoreVars, storeVars, wizardVars, poolVars, gigVars, onboardVars,
                   legacyVars, matchVars, assistantVars>>

(* The seekers and jobs of the sub-score specification: every declared     *)
(* level and none, job types that match and that do not, salary ranges     *)
(* above, below and across the job's, and salaries unset or 0.             *)
ExperienceLevels == {"", "early", "mid", "senior", "leadership", "career_changer"}

SubScoreSeekers ==
    {Seeker(TechSkills, {1}, lv, "builder", jt, sal[1], sal[2]) :
        lv \in ExperienceLevels,
        jt \in {{}, {"full-time"}, {"part-time", "contract"}},
        sal \in {<<None, None>>, <<80000, None>>, <<None, 120000>>, <<80000, 120000>>,
                 <<30000, 40000>>, <<0, 120000>>, <<80000, 0>>}}

SubScoreJobs ==
    {Job(1, title, description, "", {}, 1, jt, sal[1], sal[2], NoOrgSignals, TRUE, 20) :
        title \in {"Senior Software Engineer", "Program Intern", "Executive Director",
                   "Fundraising Officer"},
        description \in {"", LongDescription,
                         "Lead our research team and manage fundraising strategy. 5+ years of experience required."},
        jt \in {"full-time", ""},
        sal \in {<<None, None>>, <<50000, None>>, <<None, 90000>>, <<50000, 90000>>,
                 <<50000, 60000>>, <<0, 90000>>}}

InitSubScore ==
    /\ seeker \in SubScoreSeekers
    /\ job \in SubScoreJobs
    /\ semantic = FallbackSemantic
    /\ hashSeed = [w \in Workers |-> 0]
    /\ results = [w \in Workers |-> NoResult]
    /\ skillsOut = NoSkillsOut
    /\ structuredOut = NoOutcome
    /\ IdleStore
    /\ IdleWizard
    /\ IdleRest

NextSubScore ==
    \/ ScoreExperienceCall
    \/ ScorePreferencesCall

SpecSubScore == InitSubScore /\ [][NextSubScore]_vars

(* The level keywords in the job's title and in the first 500 characters   *)
(* of its description.                                                     *)
LevelWordsSeen == LevelKeywordsIn[job.title] \cup LevelKeywordsIn[First500(job.description)]

(* The first level of LEVEL_KEYWORDS with a keyword among those seen. *)
LevelSeen ==
    IF LevelWordsSeen = {} THEN ""
    ELSE LEVEL_ORDER[CHOOSE k \in 1..Len(LEVEL_ORDER) :
            /\ LEVEL_KEYWORDS[LEVEL_ORDER[k]] \cap LevelWordsSeen # {}
            /\ \A i \in 1..(k - 1) : LEVEL_KEYWORDS[LEVEL_ORDER[i]] \cap LevelWordsSeen = {}]

(* C19: the experience sub-score is 50 when the seeker declared no level;  *)
(* otherwise 100 when the level inferred for the job is in the list of     *)
(* levels compatible with the seeker's, 30 when a level was inferred and   *)
(* is not in the list, and 60 when none can be inferred from the title and *)
(* the first 500 characters of the description.                            *)
C19_ExperienceSubScore ==
    subScoreOut.op = "_score_experience" =>
        subScoreOut.score =
            IF seeker.experience_level = "" THEN R(50)
            ELSE IF LevelSeen = "" THEN R(60)
            ELSE IF LevelSeen \in EXPERIENCE_COMPATIBILITY[seeker.experience_level]
                 THEN R(100)
            ELSE R(30)

(* A seeker who declared a level is scored against a job whose only level  *)
(* keyword comes after the 500th character of the description: 60.         *)
C19_Witness ==
    /\ subScoreOut.op = "_score_experience"
    /\ seeker.experience_level = "senior"
    /\ job.description = LongDescription
    /\ LevelKeywordsIn[job.title] = {}
    /\ subScoreOut.score = R(60)

SalaryAllSet == Truthy(seeker.salary_min) /\ Truthy(job.salary_min) /\ Truthy(job.salary_max)

SalaryOverlaps ==
    /\ (Truthy(seeker.salary_max) => job.salary_min <= seeker.salary_max)
    /\ job.salary_max >= seeker.salary_min

SalaryBonus == SalaryAllSet /\ SalaryOverlaps

TypeBonus == job.job_type # "" /\ job.job_type \in seeker.job_types

SaysSalaryInRange ==
    \E i \in 1..Len(subScoreOut.reasons) : subScoreOut.reasons[i].text = "Salary in your range"

(* C20: the preferences sub-score is 50, 75 or 100: 50, plus 25 exactly    *)
(* when the job's type is among the seeker's job types, plus 25 exactly    *)
(* when the seeker's salary_min and the job's salary_min and salary_max    *)
(* are set and job_min <= seeker_max (an absent seeker_max bounds nothing) *)
(* and job_max >= seeker_min; "Salary in your range" is among the reasons  *)
(* if and only if the salary bonus was added; with a seeker salary_min of  *)
(* 80000 and a job salary_max of 60000 there is neither.                   *)
C20_PreferencesSubScore ==
    subScoreOut.op = "_score_preferences" =>
        /\ subScoreOut.score \in {R(50), R(75), R(100)}
        /\ subScoreOut.score =
              R(50 + (IF TypeBonus THEN 25 ELSE 0) + (IF SalaryBonus THEN 25 ELSE 0))
        /\ SaysSalaryInRange <=> SalaryBonus
        /\ seeker.salary_min = 80000 /\ job.salary_max = 60000 =>
              ~SaysSalaryInRange /\ subScoreOut.score \in {R(50), R(75)}

(* A seeker asking 80000 to 120000 is scored against a job paying 50000 to *)
(* 60000: no salary bonus and no reason.                                   *)
C20_Witness ==
    /\ subScoreOut.op = "_score_preferences"
    /\ seeker.salary_min = 80000
    /\ job.salary_min = 50000
    /\ job.salary_max = 60000
    /\ ~TypeBonus
    /\ subScoreOut.score = R(50)
    /\ subScoreOut.reasons = <<>>

(* A seeker asking 30000 to 40000 is scored against a job paying 50000 to  *)
(* 90000 of a type the seeker accepts: the type bonus alone.               *)
C20_BelowRange ==
    /\ subScoreOut.op = "_score_preferences"
    /\ seeker.salary_max = 40000
    /\ job.salary_min = 50000
    /\ TypeBonus
    /\ subScoreOut.score = R(75)

-----------------------------------------------------------------------------
(* ImpactPotentialService called on its own.                               *)

(* calculate_impact_potential(job, seeker); the caller multiplies the      *)
(* score by 100 for the impact component.                                  *)
CalculateImpactPotentialCall ==
    /\ subScoreOut' = [op |-> "calculate_impact_potential",
                       result |-> CalculateImpactPotential(seeker, job, hashSeed[1])]
    /\ UNCHANGED <<scoreVars, storeVars, wizardVars, poolVars, gigVars, onboardVars,
                   legacyVars, matchVars, assistantVars>>

(* calculate_role_leverage(job_title) *)
CalculateRoleLeverageCall ==
    /\ subScoreOut' = [op |-> "calculate_role_leverage",
                       score |-> CalculateRoleLeverage(job.title).score]
    /\ UNCHANGED <<scoreVars, storeVars, wizardVars, poolVars, gigVars, onboardVars,
                   legacyVars, matchVars, assistantVars>>

(* calculate_skill_scarcity(seeker_skills, job_skills) *)
CalculateSkillScarcityCall ==
    /\ subScoreOut' = [op |-> "calculate_skill_scarcity",
                       score |-> CalculateSkillScarcity(seeker.skills, job.skills,
                                                        hashSeed[1]).score]
    /\ UNCHANGED <<scoreVars, storeVars, wizardVars, poolVars, gigVars, onboardVars,
                   legacyVars, matchVars, assistantVars>>

(* Every combination of the credibility signals of an organization: a      *)
(* B Corp score is absent, between 100 and 129, or from 130.               *)
OrgSignalSets ==
    {[is_givewell_top_charity |-> gw, is_80k_recommended |-> ek,
      is_bcorp_certified |-> bc[1], bcorp_score |-> bc[2],
      has_public_impact_report |-> ir, has_public_financials |-> fin,
      impact_statement |-> st, impact_metric |-> met] :
        gw \in BOOLEAN, ek \in BOOLEAN,
        bc \in {<<FALSE, None>>, <<TRUE, None>>, <<TRUE, 101>>, <<TRUE, 135>>},
        ir \in BOOLEAN, fin \in BOOLEAN, st \in BOOLEAN, met \in BOOLEAN}

ImpactSeekers ==
    {Seeker(sk, {1}, "senior", "builder", {"full-time"}, None, None) :
        sk \in {{}, TechSkills, {"fundraising"}, {"data-analysis", "python"}}}

ImpactJobs ==
    {Job(1, title, "", "", sk, 1, "full-time", None, None, org, TRUE, 20) :
        title \in DOMAIN RoleKeywordsIn,
        sk \in {{}, {"python", "sql"}, {"fundraising", "aws"}, {"data-analysis"}},
        org \in OrgSignalSets}

InitImpact ==
    /\ seeker \in ImpactSeekers
    /\ job \in ImpactJobs
    /\ semantic = FallbackSemantic
    /\ hashSeed = [w \in Workers |-> 0]
    /\ results = [w \in Workers |-> NoResult]
    /\ skillsOut = NoSkillsOut
    /\ structuredOut = NoOutcome
    /\ IdleStore
    /\ IdleWizard
    /\ IdleRest

NextImpact ==
    \/ CalculateImpactPotentialCall
    \/ CalculateRoleLeverageCall
    \/ CalculateSkillScarcityCall

SpecImpact == InitImpact /\ [][NextImpact]_vars

InUnit(x) == RLeq(R(0), x) /\ RLeq(x, R(1))

(* C21: the impact potential of every organization, title and pair of      *)
(* skill lists is 0.40 * org credibility + 0.30 * role leverage + 0.30 *   *)
(* skill scarcity, where the org credibility is the points over 50 capped  *)
(* at 1.0 and each component lies in [0, 1]; so the score lies in [0, 1]   *)
(* and the impact component, the score times 100, in [0, 100].             *)
C21_ImpactPotentialInUnit ==
    subScoreOut.op = "calculate_impact_potential" =>
        LET r == subScoreOut.result
            points == OrgPoints(job.organization)
        IN  /\ r.org_credibility = (IF points >= 50 THEN R(1) ELSE Rat(points, 50))
            /\ InUnit(r.org_credibility)
            /\ InUnit(r.role_leverage)
            /\ InUnit(r.skill_scarcity)
            /\ r.score = RAdd(RMul(Rat(40, 100), r.org_credibility),
                              RAdd(RMul(Rat(30, 100), r.role_leverage),
                                   RMul(Rat(30, 100), r.skill_scarcity)))
            /\ InUnit(r.score)
            /\ InRange(RMul(r.score, R(100)))

(* An organization with every signal has 75 points, capped to 1.0; with a  *)
(* top title and scarce shared skills the score is above 0.8.              *)
C21_Witness ==
    /\ subScoreOut.op = "calculate_impact_potential"
    /\ OrgPoints(job.organization) = 75
    /\ subScoreOut.result.org_credibility = R(1)
    /\ job.title = "Executive Director"
    /\ subScoreOut.result.role_leverage = R(1)
    /\ seeker.skills \cap job.skills # {}
    /\ RLt(Rat(8, 10), subScoreOut.result.score)

(* The keywords of the table found in the job's title. *)
TitleKeywords == RoleKeywordsIn[job.title]

(* C22: the role leverage is the largest point value among the keywords    *)
(* of the table that occur in the title, over 30, and the mid-level        *)
(* default 10/30 whenever no keyword occurs, the empty title included.     *)
C22_RoleLeverage ==
    subScoreOut.op = "calculate_role_leverage" =>
        subScoreOut.score = (IF TitleKeywords = {} THEN Rat(10, 30)
                             ELSE Rat(MaxPoints(TitleKeywords), 30))

(* The shared skills and the sum of their multipliers (tenths). *)
SharedSkills == seeker.skills \cap job.skills

RECURSIVE SumMultipliers(_)
SumMultipliers(skills) ==
    IF skills = {} THEN 0
    ELSE LET s == CHOOSE x \in skills : TRUE
         IN  ScarcityMultiplier(s) + SumMultipliers(skills \ {s})

(* C23: the skill scarcity is 0.5 when either list is empty, 0.3 when both *)
(* are non-empty and share no skill, and otherwise the average multiplier  *)
(* of the shared skills, each between 1.0 and 1.5, minus 0.5 and capped at *)
(* 1.0; it always lies in [0, 1].                                          *)
C23_SkillScarcity ==
    subScoreOut.op = "calculate_skill_scarcity" =>
        /\ \A s \in SharedSkills : ScarcityMultiplier(s) \in 10..15
        /\ subScoreOut.score =
              (IF seeker.skills = {} \/ job.skills = {} THEN Rat(1, 2)
               ELSE IF SharedSkills = {} THEN Rat(3, 10)
               ELSE RMin(RSub(Rat(SumMultipliers(SharedSkills),
                                  10 * Cardinality(SharedSkills)), Rat(1, 2)),
                         R(1)))
        /\ InUnit(subScoreOut.score)

(* Two shared skills with different multipliers: python 1.2 and sql 1.1    *)
(* average 1.15, so the scarcity is 0.65.                                  *)
C23_Witness ==
    /\ subScoreOut.op = "calculate_skill_scarcity"
    /\ SharedSkills = {"python", "sql"}
    /\ subScoreOut.score = Rat(65, 100)

(* Non-empty lists that share no skill. *)
C23_NoOverlapWitness ==
    /\ subScoreOut.op = "calculate_skill_scarcity"
    /\ seeker.skills # {} /\ job.skills # {} /\ SharedSkills = {}
    /\ subScoreOut.score = Rat(3, 10)

-----------------------------------------------------------------------------
(* The reasons of a match result.                                          *)

(* Semantic scores on both sides of the two thresholds of _score_candidate. *)
ReasonSemantics == {R(0), Rat(649, 10), R(65), Rat(799, 10), R(80), R(100)}

ReasonSeekers ==
    {Seeker(sk, ar, lv, ws, {"full-time"}, sal[1], sal[2]) :
        sk \in {{}, TechSkills},
        ar \in {{}, {2}},
        lv \in {"", "leadership"},
        ws \in {"", "builder"},
        sal \in {<<None, None>>, <<80000, 120000>>}}

InitReasons ==
    /\ seeker \in ReasonSeekers
    /\ job \in ScoreJobs
    /\ semantic \in ReasonSemantics
    /\ hashSeed = [w \in Workers |-> 0]
    /\ results = [w \in Workers |-> NoResult]
    /\ skillsOut = NoSkillsOut
    /\ structuredOut = NoOutcome
    /\ IdleStore
    /\ IdleWizard
    /\ IdleRest

NextReasons == ScoreCandidateCall(1)

SpecReasons == InitReasons /\ [][NextReasons]_vars

(* What _calculate_profile_score appended, in the order of emission. *)
ProfileReasons == CalculateProfileScore(seeker, job, hashSeed[1]).reasons

SemanticReasons ==
    {Reason("Strong semantic match with your profile", <<>>),
     Reason("Good relevance to your background", <<>>)}

(* C24: a match result has at most 5 reasons; from a semantic score of 65  *)
(* its first reason is the semantic-match reason, also when all five       *)
(* profile sub-scorers emitted a reason, and below 65 it has no semantic   *)
(* reason; the other entries are the profile reasons in emission order.    *)
C24_ReasonsOfResult ==
    Scored(1) =>
        LET reasons == results[1].reasons
        IN  /\ Len(reasons) <= 5
            /\ IF RLeq(R(65), semantic)
               THEN /\ reasons # <<>>
                    /\ reasons[1] = (IF RLeq(R(80), semantic)
                                     THEN Reason("Strong semantic match with your profile", <<>>)
                                     ELSE Reason("Good relevance to your background", <<>>))
                    /\ Tail(reasons) = Take(ProfileReasons, 4)
               ELSE /\ reasons = Take(ProfileReasons, 5)
                    /\ \A i \in 1..Len(reasons) : reasons[i] \notin SemanticReasons

(* All five sub-scorers emitted a reason and the semantic score is between *)
(* 65 and 80: the result keeps the semantic reason and the first four      *)
(* profile reasons.                                                        *)
C24_Witness ==
    /\ Scored(1)
    /\ Len(ProfileReasons) = 5
    /\ semantic = R(65)
    /\ Len(results[1].reasons) = 5
    /\ results[1].reasons[1] = Reason("Good relevance to your background", <<>>)
    /\ results[1].reasons[5] = ProfileReasons[4]

(* Just below 65 the five profile reasons are the reasons. *)
C24_BelowWitness ==
    /\ Scored(1)
    /\ semantic = Rat(649, 10)
    /\ Len(ProfileReasons) = 5
    /\ results[1].reasons = ProfileReasons

-----------------------------------------------------------------------------
(* The lexical score of two jobs for one seeker.                           *)

(* SearchRank values (thousandths): no match, small, typical, 1.0, above.  *)
LexicalRanks == {0, 1, 20, 500, 1000, 1500}

LexicalJobs ==
    {Job(1, "Program Intern", "", "", {}, 2, "full-time", None, None, NoOrgSignals, sv, rank) :
        sv \in BOOLEAN, rank \in LexicalRanks}

(* _calculate_lexical_score(seeker, job) for the job and for a second job  *)
(* that differs from it in its rank for the seeker's query.                *)
CalculateLexicalScoreCalls ==
    /\ \E rank \in LexicalRanks :
          subScoreOut' = [op |-> "_calculate_lexical_score",
                          score |-> CalculateLexicalScore(seeker, job),
                          other_rank |-> rank,
                          other_score |->
                              CalculateLexicalScore(seeker, [job EXCEPT !.fts_rank = rank])]
    /\ UNCHANGED <<scoreVars, storeVars, wizardVars, poolVars, gigVars, onboardVars,
                   legacyVars, matchVars, assistantVars>>

InitLexical ==
    /\ seeker \in ScoreSeekers
    /\ job \in LexicalJobs
    /\ semantic = FallbackSemantic
    /\ hashSeed = [w \in Workers |-> 0]
    /\ results = [w \in Workers |-> NoResult]
    /\ skillsOut = NoSkillsOut
    /\ structuredOut = NoOutcome
    /\ IdleStore
    /\ IdleWizard
    /\ IdleRest

NextLexical == CalculateLexicalScoreCalls

SpecLexical == InitLexical /\ [][NextLexical]_vars

(* C25: the lexical score is the neutral 50 when the seeker's query string *)
(* is empty or the job has no search vector, and otherwise the raw rank    *)
(* times 100 capped into [0, 100]; so, for a non-empty query, a job with a *)
(* higher rank never gets a lower lexical score than a job with a lower    *)
(* rank, a rank of 0 included.                                             *)
C25_LexicalScore ==
    subScoreOut.op = "_calculate_lexical_score" =>
        /\ subScoreOut.score =
              (IF SearchQueryIsEmpty(seeker) \/ ~job.search_vector THEN R(50)
               ELSE RMin(R(100), Rat(job.fts_rank * 100, 1000)))
        /\ (~SearchQueryIsEmpty(seeker) /\ job.search_vector
                /\ subScoreOut.other_rank > job.fts_rank)
              => RLeq(subScoreOut.score, subScoreOut.other_score)

-----------------------------------------------------------------------------
(* The embedding of a job over its saves.                                  *)

(* The payment specification: the Job table under every operation that     *)
(* saves or updates a job, payment verification with every outcome         *)
(* included.                                                               *)
NextPayment ==
    \/ \E dt \in {0, 1} : CreateJob(dt)
    \/ \E kind \in ImportKinds, dt \in {0, 1} : UpsertNewJob(kind, dt)
    \/ \E id \in JobIds : UpsertExistingJob(id)
    \/ \E id \in JobIds, payment_status \in {"paid", "unpaid", "error"} :
          VerifyPayment(id, payment_status)
    \/ \E id \in JobIds, active \in BOOLEAN : AdminSaveJob(id, active)
    \/ \E id \in JobIds : CrawlJobNotFound(id)
    \/ \E max_age \in 0..MaxAge : CleanupJobs(max_age)

SpecPayment == InitStore /\ [][NextPayment]_vars

(* The rows a step created or changed. *)
RowTouched(id) == id \notin JobIds \/ jobsDb'[id] # jobsDb[id]

C26_InactiveKeepsEmbedding ==
    \E id \in JobIds : ~jobsDb[id].is_active /\ jobsDb[id].embedding

-----------------------------------------------------------------------------
(* The JobMatch cache of the legacy MatchingService.                       *)

(* The seeker profile (one row, edited in place) and the jobs of the cache *)
(* specification.                                                          *)
CacheSeekers ==
    {[Seeker(TechSkills, {1}, "senior", "builder", {}, None, None)
        EXCEPT !.impact_statement = "I build software for climate organisations."],
     Seeker({}, {}, "", "", {}, None, None)}

CacheJobs ==
    {Job(id, txt[1], txt[2], "", txt[3], txt[4], "full-time", None, None, NoOrgSignals,
         TRUE, 20) :
        id \in {1, 2},
        txt \in {<<"Senior Software Engineer",
                   "Build and design backend software for our platform using Python and SQL.",
                   {"python"}, 1>>,
                 <<"Program Intern", "", {}, None>>}}

(* The rows of JobMatch for a (seeker, job) pair; the seeker's row id is 1. *)
MatchRows(rows, id) == {m \in rows : m.seeker = 1 /\ m.job = id}

(* MatchingService.cache_match(seeker, job) *)
CacheMatchCall ==
    /\ LET match_data == CalculateMatch(seeker, job)
       IN  \E first \in FirstFiveOf(match_data.missing) :
              jobMatches' = (jobMatches \ MatchRows(jobMatches, job.id))
                              \cup {[seeker |-> 1, job |-> job.id, score |-> match_data.total,
                                     breakdown |-> match_data.breakdown,
                                     reasons |-> match_data.reasons,
                                     gaps |-> {LegacySkillLabels[slug] : slug \in first}]}
    /\ UNCHANGED <<matching, modelLoaded, scoreVars, storeVars, wizardVars, poolVars,
                   gigVars, onboardVars, legacyVars, subScoreVars, assistantVars>>

(* MatchingService.get_or_calculate_match(seeker, job) *)
GetOrCalculateMatchCall ==
    /\ LET match_data == GetOrCalculateMatch(seeker, job, jobMatches)
       IN  \E first \in FirstFiveOf(match_data.missing) :
              legacyOut' = [called |-> TRUE,
                            job |-> job.id,
                            total |-> match_data.total,
                            breakdown |-> match_data.breakdown,
                            reasons |-> match_data.reasons,
                            gaps |-> {LegacySkillLabels[slug] : slug \in first}]
    /\ UNCHANGED <<scoreVars, storeVars, wizardVars, poolVars, gigVars, onboardVars,
                   matchVars, subScoreVars, assistantVars>>

(* The seeker edits the profile. *)
EditProfile ==
    /\ \E s \in CacheSeekers : s # seeker /\ seeker' = s
    /\ UNCHANGED <<job, semantic, hashSeed, results, skillsOut, structuredOut>>
    /\ UNCHANGED <<storeVars, wizardVars, restVars>>

(* The job is edited, or the caller turns to the other job. *)
EditJob ==
    /\ \E j \in CacheJobs : j # job /\ job' = j
    /\ UNCHANGED <<seeker, semantic, hashSeed, results, skillsOut, structuredOut>>
    /\ UNCHANGED <<storeVars, wizardVars, restVars>>

InitCache ==
    /\ seeker \in CacheSeekers
    /\ job \in CacheJobs
    /\ semantic = FallbackSemantic
    /\ hashSeed = [w \in Workers |-> 0]
    /\ results = [w \in Workers |-> NoResult]
    /\ skillsOut = NoSkillsOut
    /\ structuredOut = NoOutcome
    /\ IdleStore
    /\ IdleWizard
    /\ IdleRest

NextCache ==
    \/ CacheMatchCall
    \/ GetOrCalculateMatchCall
    \/ EditProfile
    \/ EditJob

SpecCache == InitCache /\ [][NextCache]_vars

(* A row holds what calculate_match gives for the seeker and the job now. *)
RowIsCurrent(m) ==
    /\ m.score = CalculateMatch(seeker, job).total
    /\ m.breakdown = CalculateMatch(seeker, job).breakdown
    /\ m.reasons = CalculateMatch(seeker, job).reasons

-----------------------------------------------------------------------------
(* The job level that corresponds to a seeker's declared level. *)
SameLevel ==
       "early" :> "entry"
    @@ "mid" :> "mid"
    @@ "senior" :> "senior"
    @@ "leadership" :> "leadership"

(* C28: a seeker who declared a level is compatible with a job inferred as *)
(* the corresponding level (early/entry, mid/mid, senior/senior,           *)
(* leadership/leadership): the experience sub-score of such a job is 100,  *)
(* never the mismatch score 30.                                            *)
C28_SameLevelScores100 ==
    (/\ subScoreOut.op = "_score_experience"
     /\ seeker.experience_level \in DOMAIN SameLevel
     /\ LevelSeen = SameLevel[seeker.experience_level])
        => subScoreOut.score = R(100)

-----------------------------------------------------------------------------
(* The gig views alone: apply, submit, fund and review requests, without   *)
(* the staff's edits of a trial.                                           *)
NextGigViews ==
    \/ \E user \in GigUsers, valid \in BOOLEAN : GigApply(user, valid)
    \/ \E user \in GigUsers, app \in GigUsers : GigSubmit(user, app)
    \/ \E user \in GigUsers, app \in GigUsers, valid \in BOOLEAN : GigFund(user, app, valid)
    \/ \E user \in GigUsers, app \in GigUsers, valid \in BOOLEAN, decision \in {"pass", "fail"} :
          GigReview(user, app, valid, decision)

SpecGigViews == InitGigs /\ [][NextGigViews]_vars

(* C29: in every state reachable by apply, re-apply, fund, submit and      *)
(* review requests, an application whose trial is FUNDED or RELEASED does  *)
(* not have status SUBMITTED (a repeated apply does not reset a funded     *)
(* application), and an application has status ACCEPTED or TRIAL_SUBMITTED *)
(* only if a Submission exists for its trial.                              *)
C29_StatusConsistentWithTrial ==
    \A a \in GigUsers :
        /\ applications[a].trial \in {"funded", "released"}
              => applications[a].status # "submitted"
        /\ applications[a].status \in {"accepted", "trial_submitted"}
              => applications[a].submissions > 0

-----------------------------------------------------------------------------
(* The Applicant Assistant: generate requests of one user, who has no      *)
(* subscription, served by the two worker processes.                       *)

(* The requests of a run (the cap that keeps the counters finite). *)
MaxGenerations == 5

(* AssistantSubscription.can_use_assistant on an instance in memory; the   *)
(* user is not subscribed.                                                 *)
CanUseAssistant(sub) == sub.is_subscribed \/ sub.free_uses_remaining > 0

(* record_usage on the instance in memory: what save() then writes. *)
RecordUsage(sub) ==
    [sub EXCEPT !.total_uses = @ + 1,
                !.free_uses_remaining =
                    IF ~sub.is_subscribed /\ @ > 0 THEN @ - 1 ELSE @]

(* post, up to the usage check: get_or_create_for_user reads the row into  *)
(* an instance; 403 when can_use_assistant is false.                       *)
AssistantCheck(w) ==
    /\ assistant.request[w].pc = "idle"
    /\ assistant.started < MaxGenerations
    /\ assistant' =
          IF CanUseAssistant(assistant.subscription)
          THEN [assistant EXCEPT !.started = @ + 1,
                                 !.request[w] = [pc |-> "generating", code |-> 0,
                                                 subscription |-> assistant.subscription]]
          ELSE [assistant EXCEPT !.started = @ + 1,
                                 !.request[w] = [pc |-> "idle", code |-> 403,
                                                 subscription |-> assistant.subscription]]
    /\ UNCHANGED <<scoreVars, storeVars, wizardVars, poolVars, gigVars, onboardVars,
                   legacyVars, matchVars, subScoreVars>>

(* post, the generation: a bad payload (400) or a failed LLM call (500)    *)
(* ends the request; otherwise AssistantGeneration.objects.create.         *)
AssistantGenerate(w, outcome) ==
    /\ assistant.request[w].pc = "generating"
    /\ assistant' =
          IF outcome = "ok"
          THEN [assistant EXCEPT !.generations = @ + 1,
                                 !.request[w].pc = "recording"]
          ELSE [assistant EXCEPT !.request[w].pc = "idle",
                                 !.request[w].code = IF outcome = "bad_payload" THEN 400
                                                     ELSE 500]
    /\ UNCHANGED <<scoreVars, storeVars, wizardVars, poolVars, gigVars, onboardVars,
                   legacyVars, matchVars, subScoreVars>>

(* post, the end: subscription.record_usage() on the instance read at the  *)
(* start, whose save() writes every field of the row, and the response     *)
(* with the result.                                                        *)
AssistantRecord(w) ==
    /\ assistant.request[w].pc = "recording"
    /\ LET saved == RecordUsage(assistant.request[w].subscription)
       IN  assistant' = [assistant EXCEPT !.subscription = saved,
                                          !.successes = @ + 1,
                                          !.request[w] = [pc |-> "idle", code |-> 200,
                                                          subscription |-> saved]]
    /\ UNCHANGED <<scoreVars, storeVars, wizardVars, poolVars, gigVars, onboardVars,
                   legacyVars, matchVars, subScoreVars>>

InitAssistant ==
    /\ seeker = EmptySeeker
    /\ job = KindJob(FormKind, 1)
    /\ semantic = FallbackSemantic
    /\ hashSeed = [w \in Workers |-> 0]
    /\ results = [w \in Workers |-> NoResult]
    /\ skillsOut = NoSkillsOut
    /\ structuredOut = NoOutcome
    /\ IdleStore
    /\ IdleWizard
    /\ IdleRest

NextAssistant ==
    \/ \E w \in Workers : AssistantCheck(w)
    \/ \E w \in Workers, outcome \in {"ok", "bad_payload", "llm_failed"} :
          AssistantGenerate(w, outcome)
    \/ \E w \in Workers : AssistantRecord(w)

SpecAssistant == InitAssistant /\ [][NextAssistant]_vars

(* C30: a user without a subscription gets at most 3 successful            *)
(* generations, the initial free_uses_remaining, also when generate        *)
(* requests run concurrently; free_uses_remaining is never negative, and   *)
(* each successful generation lowers it by exactly one.                    *)
C30_AtMostThreeFreeGenerations ==
    /\ assistant.successes <= FreeUses
    /\ assistant.subscription.free_uses_remaining >= 0
    /\ assistant.subscription.free_uses_remaining = FreeUses - assistant.successes
====
